---- MODULE Spec2Model ----
(***************************************************************************)
(* agent-transcripts: the conversation-graph reconstruction of the two     *)
(* JSONL adapters (claude-code, pi-coding-agent), the branch-aware tree    *)
(* walk of the renderer, the archive entry files and the watcher lock.     *)
(*                                                                         *)
(* The module holds ten state machines over disjoint variables.  Each      *)
(* has its own Init/Next/Spec; in the states of one machine the variables  *)
(* of the others rest at their "off" values.                               *)
(*   SpecParse   adapter.parse: splitConversations, transformConversation  *)
(*   SpecWalk    walkTranscriptTree, one step per loop iteration           *)
(*   SpecWatch   ArchiveWatcher start / stop / scan of concurrent watchers *)
(*   SpecArchive saveEntry / loadEntry of concurrent processes             *)
(*   SpecTools   transformConversation's tool-result correlation           *)
(*   SpecRerun   parse and walkTranscriptTree run twice on one input       *)
(*   SpecSessions archiveAll / archiveSession over unchanged sources       *)
(*   SpecStale   archiveAll over an archive left by an earlier run         *)
(*   SpecOneWatcher, SpecOneWatcherFair  the scans of a single watcher     *)
(*   SpecTitles  generateTitles next to archiveSession on one entry        *)
(*   SpecConvert convertToDirectory and the transcripts.json index         *)
(*   SpecCache   the server's HtmlCache                                    *)
(***************************************************************************)
EXTENDS Integers, Sequences, FiniteSets, TLC

VARIABLES
    \* ---- adapter.parse -------------------------------------------------
    adapter,          \* "claude-code" | "pi-coding-agent" | "off"
    records,          \* the decoded JSONL records of one source file
    ppc,              \* position in parse(): "start" | "split" | "done" | "off"
    conversations,    \* SplitResult.conversations (records by file position)
    resolvedParents,  \* SplitResult.resolvedParents
    transcripts       \* the Transcript[] returned: one message list each

parseVars == <<adapter, records, ppc, conversations, resolvedParents, transcripts>>

VARIABLES
    \* ---- walkTranscriptTree ---------------------------------------------
    messages,         \* transcript.messages
    head,             \* options.head, None when not given
    wpc,              \* "start" | "trace" | "emit" | "done" | "exhausted" | "off"
    target,           \* the local target
    traceCurrent,     \* tracePath's local current
    path,             \* tracePath's local path
    events            \* the TreeEvents yielded so far

walkVars == <<messages, head, wpc, target, traceCurrent, path, events>>

VARIABLES
    \* ---- ArchiveWatcher, one watcher per process -----------------------
    lockFile,         \* content of <archiveDir>/archive.lock: a pid, None when absent
    wst,              \* per watcher: "new" | "read" | "check" | "write" | "scan" |
                      \*   "running" | "failed" | "stopped" | "dead" | "off"
    existing,         \* per watcher: acquireLock's local existing
    scanning,         \* per watcher: this.scanning
    pollTimer,        \* per watcher: this.pollTimer is set
    debounceTimer,    \* per watcher: this.debounceTimer is pending
    activeScans,      \* per watcher: scan() calls that are in their archive pass
    scanSkipped,      \* per watcher: some scan() call returned at its first line
    readVer,          \* per watcher: the source version its last pass read
    srcVer,           \* changes made to the .jsonl sources so far
    arcVer,           \* the source version the archive holds
    failures          \* scans that have failed so far

watchVars ==
    <<lockFile, wst, existing, scanning, pollTimer, debounceTimer,
      activeScans, scanSkipped, readVer, srcVer, arcVer, failures>>

VARIABLES
    \* ---- saveEntry / loadEntry on one session's entry file -------------
    dir,              \* the archive directory: path -> inode
    inodes,           \* inode -> the chunks written to it
    saves,            \* saveEntry calls begun so far; a save's number is its version
    clock,            \* Date.now()
    spc,              \* per process: "idle" | "write" | "rename" | "off"
    sTmp,             \* per process: saveEntry's tmpPath
    sIno,             \* per process: the inode Bun.write has open
    sVer,             \* per process: the version being saved
    sOff,             \* per process: chunks written so far
    rpc,              \* the reader: "idle" | "read" | "done" | "off"
    rIno,             \* the inode the reader has open
    rBuf,             \* the chunks the reader has read
    rResult           \* what loadEntry gave: "entry" | "undefined" | "threw" | "none"

archiveVars ==
    <<dir, inodes, saves, clock, spc, sTmp, sIno, sVer, sOff, rpc, rIno, rBuf, rResult>>

VARIABLES
    \* ---- transformConversation: tool calls and their results ------------
    tAdapter,         \* "claude-code" | "pi-coding-agent" | "off"
    tRecs,            \* the records of one conversation, with their content blocks
    tpc,              \* "start" | "collected" | "done" | "off"
    toolResults,      \* allToolResults / toolResults: invocation id -> result
    calls             \* the ToolCalls of the tool_calls messages pushed

toolVars == <<tAdapter, tRecs, tpc, toolResults, calls>>

VARIABLES
    \* ---- the pipeline run twice on one conversation --------------------
    convRecs,         \* the claude-code records of the conversation
    clockNow,         \* the smallest value the next new Date() may return
    runNo,            \* 1 | 2: the run in progress; 0 when off
    firstEvents       \* the events the first run yielded

rerunVars == <<convRecs, clockNow, runNo, firstEvents>>

VARIABLES
    \* ---- archiveAll over one source directory ---------------------------
    discovered,       \* adapter.discover(sourceDir): the DiscoveredSessions
    archiveStore,     \* the archive directory: sessionId -> ArchiveEntry
    allPc,            \* "idle" | "loop" | "off"
    passNo,           \* archiveAll calls that have returned
    sessIdx,          \* position of archiveAll's loop over the sessions
    allResult,        \* the ArchiveResult of the call in progress or last made
    saveCount         \* saveEntry calls so far (the clock of archivedAt)

sessionVars ==
    <<discovered, archiveStore, allPc, passNo, sessIdx, allResult, saveCount>>

VARIABLES
    \* ---- generateTitles next to archiveSession, on one entry ------------
    entryFile,        \* the archive directory: sessionId -> ArchiveEntry
    sourceText,       \* the content of the session's source file
    gpc,              \* generateTitles: "idle" | "generate" | "done" | "off"
    gEntry,           \* generateTitles: the entry listEntries gave it
    apc,              \* archiveSession: "idle" | "loaded" | "off"
    aText,            \* archiveSession: the content it read
    aStore,           \* archiveSession: what loadEntry gave it
    aPasses,          \* archiveSession calls that have returned
    aSaves            \* saveEntry calls of the archiver (the clock of archivedAt)

titleVars ==
    <<entryFile, sourceText, gpc, gEntry, apc, aText, aStore, aPasses, aSaves>>

VARIABLES
    \* ---- convertToDirectory on one source file --------------------------
    outFiles,         \* the .md files that exist in the output directory
    indexFile,        \* transcripts.json on disk: filename -> entry
    cIndex,           \* convertToDirectory's local index
    removedEntries,   \* convertToDirectory's local removedEntries
    newOutputs,       \* convertToDirectory's local newOutputs
    newNames,         \* generateOutputName of the transcripts parsed, with suffix
    cpc               \* "start" | "loop" | "save" | "done" | "failed" | "off"

convertVars ==
    <<outFiles, indexFile, cIndex, removedEntries, newOutputs, newNames, cpc>>

VARIABLES
    \* ---- the server's HtmlCache ------------------------------------------
    cacheMap,         \* this.map: its entries in insertion order
    cacheGot,         \* what the last get returned, None for undefined
    cacheEvicted      \* some set call has evicted an entry

cacheVars == <<cacheMap, cacheGot, cacheEvicted>>

vars ==
    <<parseVars, walkVars, watchVars, archiveVars, toolVars, rerunVars, sessionVars,
      titleVars,
      convertVars,
      cacheVars>>

\* What the actions of one machine leave alone.
notParseVars ==
    <<walkVars, watchVars, archiveVars, toolVars, rerunVars, sessionVars, titleVars, convertVars, cacheVars>>

notWalkVars ==
    <<parseVars, watchVars, archiveVars, toolVars, rerunVars, sessionVars, titleVars, convertVars, cacheVars>>

notWatchVars ==
    <<parseVars, walkVars, archiveVars, toolVars, rerunVars, sessionVars, titleVars, convertVars, cacheVars>>

notArchiveVars ==
    <<parseVars, walkVars, watchVars, toolVars, rerunVars, sessionVars, titleVars, convertVars, cacheVars>>

notToolVars ==
    <<parseVars, walkVars, watchVars, archiveVars, rerunVars, sessionVars, titleVars, convertVars, cacheVars>>

notRerunVars ==
    <<parseVars, watchVars, archiveVars, toolVars, sessionVars, titleVars, convertVars, cacheVars>>

notSessionVars ==
    <<parseVars, walkVars, watchVars, archiveVars, toolVars, rerunVars, titleVars, convertVars, cacheVars>>

notTitleVars ==
    <<parseVars, walkVars, watchVars, archiveVars, toolVars, rerunVars, sessionVars, convertVars, cacheVars>>

notConvertVars ==
    <<parseVars, walkVars, watchVars, archiveVars, toolVars, rerunVars, sessionVars, titleVars, cacheVars>>

notCacheVars ==
    <<parseVars, walkVars, watchVars, archiveVars, toolVars, rerunVars, sessionVars, titleVars, convertVars>>

(***************************************************************************)
(* Bounds of the model.                                                    *)
(***************************************************************************)
MaxRecords == 3     \* records in one source file
NumIds     == 3     \* distinct ids that records and parent pointers may use
MaxMsgs    == 3     \* messages in one transcript
MaxTs      == 2     \* distinct message timestamps, 1..MaxTs
NumProcs   == 2     \* processes: watchers of one archive, writers of one entry
MaxSaves   == 3     \* saveEntry calls on the entry, the one before Init included
MaxNow     == 2     \* distinct values of Date.now()
NumChunks  == 2     \* write / read calls that one entry's content takes
MaxChanges == 2     \* changes of the .jsonl sources that a watcher sees
MaxFailures == 1    \* scans of the watchers that fail
MaxEdits   == 2     \* edits of the source file while titles are generated
MaxOutputs == 2     \* transcripts that one source file is converted to
CacheMaxSize == 3   \* maxSize of the HtmlCache (200 in the server)
NumCacheKeys == 4   \* distinct sessionId:segmentIndex:sourceHash keys
NumToolIds == 2     \* distinct tool invocation ids in one conversation
MaxSessions == 2    \* session files that one discover() finds
MaxPasses  == 2     \* archiveAll calls over the source directory

\* JavaScript's undefined / null / absent, for ids and parent references.
None == 0

Ids == 1..NumIds

\* process.pid of the processes.
Pids == 1..NumProcs

(***************************************************************************)
(* Generic helpers.                                                        *)
(***************************************************************************)
Range(s) == {s[i] : i \in DOMAIN s}

Max(a, b) == IF a >= b THEN a ELSE b

\* Positions 1..n as a sequence: the order of a for-of loop over an array.
Indices(n) == [i \in 1..n |-> i]

\* The last of a set of positions, or None: a Map keeps the value set last.
LastIndex(hits) ==
    IF hits = {} THEN None ELSE CHOOSE i \in hits : \A j \in hits : j <= i

NoDuplicates(s) == \A i, j \in DOMAIN s : s[i] = s[j] => i = j

(***************************************************************************)
(* Inputs of adapter.parse.                                                *)
(*                                                                         *)
(* A claude-code record is [uuid, parentUuid, type, content, timestamp];   *)
(* a pi-coding-agent entry is [id, parentId, type, role, content,          *)
(* timestamp].  content is the set of content-block kinds the record       *)
(* carries with non-blank text.  Records are stamped in file order (the    *)
(* logs are append-only).  Every record carries an id, and user and        *)
(* assistant records carry a message, as the agents write them; parent     *)
(* pointers are arbitrary: absent, dangling, duplicated ids and cycles all *)
(* occur.  Ids are numbered in order of first appearance in the file.      *)
(* The shapes drawn are one rendered record (an assistant turn with text   *)
(* and a tool call, which yields two messages), one elided record (a tool  *)
(* result) and one administrative record.                                  *)
(***************************************************************************)
ClaudeShapes ==
    { [type |-> "assistant", content |-> {"text", "tool_use"}],
      [type |-> "user",      content |-> {"tool_result"}],
      [type |-> "progress",  content |-> {}] }

PiShapes ==
    { [type |-> "message",      role |-> "assistant",  content |-> {"text", "toolCall"}],
      [type |-> "message",      role |-> "toolResult", content |-> {"text"}],
      [type |-> "model_change", role |-> "",           content |-> {}] }

\* Id sequences of length n in which each id is at most one more than the
\* largest id before it (ids named in order of first appearance).
RECURSIVE IdSeqs(_)
IdSeqs(n) ==
    IF n = 0 THEN {<<>>}
    ELSE LET shorter == IdSeqs(n - 1)
             Top(s)  == IF s = <<>> THEN 0
                        ELSE CHOOSE m \in Range(s) : \A k \in Range(s) : k <= m
         IN  UNION { { Append(s, u) : u \in 1..(IF Top(s) + 1 <= NumIds
                                                 THEN Top(s) + 1 ELSE NumIds) }
                     : s \in shorter }

(***************************************************************************)
(* claude-code adapter: splitConversations.                                *)
(***************************************************************************)
\* The filter of messageRecords.
IsMessageRecord(r) ==
    r.uuid # None /\ r.type \in {"user", "assistant", "system"}

\* messageRecords, as positions in the file.
messageRecords(recs) ==
    SelectSeq(Indices(Len(recs)), LAMBDA i : IsMessageRecord(recs[i]))

\* messageUuids
messageUuids(recs) == {recs[i].uuid : i \in Range(messageRecords(recs))}

\* allByUuid.get(u)?.parentUuid ?? null : Map.set keeps the last record.
allByUuidParent(recs, u) ==
    LET i == LastIndex({j \in DOMAIN recs : recs[j].uuid = u})
    IN  IF i = None THEN None ELSE recs[i].parentUuid

RECURSIVE AncestorWalk(_, _, _)
AncestorWalk(current, visited, recs) ==
    IF current = None THEN None
    ELSE IF current \in visited THEN None             \* cycle detected
    ELSE IF current \in messageUuids(recs) THEN current
    ELSE AncestorWalk(allByUuidParent(recs, current), visited \cup {current}, recs)

findMessageAncestor(parentUuid, recs) == AncestorWalk(parentUuid, {}, recs)

\* The maps a split builds before its traversal.
EmptyGraph ==
    [ byUuid          |-> [u \in Ids |-> None],
      children        |-> [u \in Ids |-> <<>>],
      resolvedParents |-> [u \in Ids |-> None],
      roots           |-> <<>> ]

\* The loop over messageRecords that fills byUuid, children, resolvedParents
\* and roots; todo holds the positions still to process.
RECURSIVE ClaudeBuildGraph(_, _, _)
ClaudeBuildGraph(recs, todo, g) ==
    IF todo = <<>> THEN g
    ELSE LET i        == Head(todo)
             rec      == recs[i]
             ancestor == findMessageAncestor(rec.parentUuid, recs)
             g1 == [g EXCEPT !.byUuid[rec.uuid] = i,
                             !.resolvedParents[rec.uuid] = ancestor]
             g2 == IF ancestor # None
                   THEN [g1 EXCEPT !.children[ancestor] = Append(@, rec.uuid)]
                   ELSE [g1 EXCEPT !.roots = Append(@, rec.uuid)]
         IN  ClaudeBuildGraph(recs, Tail(todo), g2)

\* The while loop over the queue of one root.
RECURSIVE Bfs(_, _, _, _)
Bfs(g, queue, visited, conversation) ==
    IF queue = <<>> THEN [visited |-> visited, conversation |-> conversation]
    ELSE LET uuid == Head(queue)
         IN  IF uuid \in visited
             THEN Bfs(g, Tail(queue), visited, conversation)
             ELSE Bfs(g, Tail(queue) \o g.children[uuid], visited \cup {uuid},
                      IF g.byUuid[uuid] # None
                      THEN Append(conversation, g.byUuid[uuid])
                      ELSE conversation)

\* The for loop over roots.
RECURSIVE CollectConversations(_, _, _, _)
CollectConversations(g, roots, visited, convs) ==
    IF roots = <<>> THEN convs
    ELSE LET root == Head(roots)
         IN  IF root \in visited
             THEN CollectConversations(g, Tail(roots), visited, convs)
             ELSE LET r == Bfs(g, <<root>>, visited, <<>>)
                  IN  CollectConversations(g, Tail(roots), r.visited,
                          IF r.conversation # <<>>
                          THEN Append(convs, r.conversation)
                          ELSE convs)

\* The mutant of InsertByTime: conversations stay in collection order.
InsertAtEnd(recs, c, sorted) == Append(sorted, c)

\* conversations.sort by the timestamp of each conversation's first record
\* (Array.prototype.sort is stable).
RECURSIVE InsertByTime(_, _, _)
InsertByTime(recs, c, sorted) ==
    IF sorted = <<>> THEN <<c>>
    ELSE IF recs[Head(sorted)[1]].timestamp <= recs[c[1]].timestamp
         THEN <<Head(sorted)>> \o InsertByTime(recs, c, Tail(sorted))
         ELSE <<c>> \o sorted

RECURSIVE SortConversations(_, _, _)
SortConversations(recs, convs, sorted) ==
    IF convs = <<>> THEN sorted
    ELSE SortConversations(recs, Tail(convs), InsertByTime(recs, Head(convs), sorted))

ClaudeSplitConversations(recs) ==
    IF messageRecords(recs) = <<>>
    THEN [conversations |-> <<>>, resolvedParents |-> EmptyGraph.resolvedParents]
    ELSE LET g == ClaudeBuildGraph(recs, messageRecords(recs), EmptyGraph)
         IN  [ conversations   |->
                   SortConversations(recs,
                       CollectConversations(g, g.roots, {}, <<>>), <<>>),
               resolvedParents |-> g.resolvedParents ]

(***************************************************************************)
(* pi-coding-agent adapter: splitConversations.                            *)
(***************************************************************************)
\* byId.has(id): some entry carries the id.
PiHas(entries, id) == \E i \in DOMAIN entries : entries[i].id = id

RECURSIVE PiBuildGraph(_, _, _)
PiBuildGraph(entries, todo, g) ==
    IF todo = <<>> THEN g
    ELSE LET entry    == entries[Head(todo)]
             parentId == entry.parentId
             g1 == IF parentId # None /\ PiHas(entries, parentId)
                   THEN [g EXCEPT !.resolvedParents[entry.id] = parentId,
                                  !.children[parentId] = Append(@, entry.id)]
                   ELSE [g EXCEPT !.resolvedParents[entry.id] = None,
                                  !.roots = Append(@, entry.id)]
         IN  PiBuildGraph(entries, Tail(todo), g1)

PiSplitConversations(entries) ==
    IF entries = <<>>
    THEN [conversations |-> <<>>, resolvedParents |-> EmptyGraph.resolvedParents]
    ELSE LET byId == [u \in Ids |-> LastIndex({j \in DOMAIN entries : entries[j].id = u})]
             g    == PiBuildGraph(entries, Indices(Len(entries)),
                                  [EmptyGraph EXCEPT !.byUuid = byId])
         IN  [ conversations   |->
                   SortConversations(entries,
                       CollectConversations(g, g.roots, {}, <<>>), <<>>),
               resolvedParents |-> g.resolvedParents ]

(***************************************************************************)
(* claude-code adapter: transformConversation.                             *)
(***************************************************************************)
\* extractText(content).trim() is not empty
HasText(content) == "text" \in content

isToolResultOnly(content) == "tool_result" \in content /\ ~HasText(content)

\* The first pass's willSkip of one record.
ClaudeWillSkip(rec) ==
    IF rec.type = "user"
    THEN IF isToolResultOnly(rec.content) THEN TRUE ELSE ~HasText(rec.content)
    ELSE IF rec.type = "assistant"
    THEN ~HasText(rec.content) /\ "thinking" \notin rec.content
                               /\ "tool_use" \notin rec.content
    ELSE IF rec.type = "system"
    THEN ~HasText(rec.content)
    ELSE FALSE

\* skippedParents after the first pass over one conversation: a map whose
\* keys are the skipped uuids.
ClaudeSkippedParents(recs, conv, resolved) ==
    LET skipped == {recs[conv[k]].uuid : k \in {j \in DOMAIN conv : ClaudeWillSkip(recs[conv[j]])}}
    IN  [u \in skipped |-> resolved[u]]

\* Hops a parent resolution may take in the model before it is cut off; the
\* code's loop has no such limit.
WalkFuel == 2 * NumIds + 2

\* resolveParent's loop without its visited check.
RECURSIVE ResolveWalkNoCycleCheck(_, _, _, _)
ResolveWalkNoCycleCheck(current, visited, skippedParents, fuel) ==
    IF current = None \/ current \notin DOMAIN skippedParents
    THEN [result |-> current, visited |-> visited, cycle |-> FALSE]
    ELSE IF fuel = 0
    THEN [result |-> current, visited |-> visited, cycle |-> FALSE]
    ELSE ResolveWalkNoCycleCheck(skippedParents[current], Append(visited, current),
                                 skippedParents, fuel - 1)

\* The while loop of resolveParent.  visited lists the ids in the order they
\* were added to the visited set.
RECURSIVE ResolveWalk(_, _, _, _)
ResolveWalk(current, visited, skippedParents, fuel) ==
    IF current = None \/ current \notin DOMAIN skippedParents
    THEN [result |-> current, visited |-> visited, cycle |-> FALSE]
    ELSE IF current \in Range(visited)
    THEN [result |-> None, visited |-> visited, cycle |-> TRUE]   \* cycle detected
    ELSE IF fuel = 0
    THEN [result |-> current, visited |-> visited, cycle |-> FALSE]
    ELSE ResolveWalk(skippedParents[current], Append(visited, current),
                     skippedParents, fuel - 1)

resolveParent(parentUuid, skippedParents) ==
    ResolveWalk(parentUuid, <<>>, skippedParents, WalkFuel).result

\* The messages one record contributes in the second pass.
ClaudeMessagesOf(rec, parentMessageRef) ==
    LET Msg(t) == [type |-> t, sourceRef |-> rec.uuid, timestamp |-> rec.timestamp,
                   parentMessageRef |-> parentMessageRef]
    IN  IF rec.type = "user"
        THEN IF isToolResultOnly(rec.content) THEN <<>>
             ELSE IF HasText(rec.content) THEN <<Msg("user")>> ELSE <<>>
        ELSE IF rec.type = "assistant"
        THEN (IF HasText(rec.content) \/ "thinking" \in rec.content
              THEN <<Msg("assistant")>> ELSE <<>>)
             \o (IF "tool_use" \in rec.content THEN <<Msg("tool_calls")>> ELSE <<>>)
        ELSE IF rec.type = "system"
        THEN IF HasText(rec.content) THEN <<Msg("system")>> ELSE <<>>
        ELSE <<>>

RECURSIVE ClaudeSecondPass(_, _, _, _)
ClaudeSecondPass(recs, todo, resolved, skippedParents) ==
    IF todo = <<>> THEN <<>>
    ELSE LET rec == recs[Head(todo)]
             parentMessageRef == resolveParent(resolved[rec.uuid], skippedParents)
         IN  ClaudeMessagesOf(rec, parentMessageRef)
             \o ClaudeSecondPass(recs, Tail(todo), resolved, skippedParents)

\* The messages of the Transcript built from one conversation.
ClaudeTransformConversation(recs, conv, resolved) ==
    ClaudeSecondPass(recs, conv, resolved, ClaudeSkippedParents(recs, conv, resolved))

(***************************************************************************)
(* pi-coding-agent adapter: transformConversation.                         *)
(***************************************************************************)
PiWillSkip(entry) ==
    IF entry.type = "message"
    THEN IF entry.role \in {"toolResult", "bashExecution"} THEN TRUE
         ELSE IF entry.role = "user" THEN ~HasText(entry.content)
         ELSE IF entry.role = "assistant"
         THEN ~HasText(entry.content) /\ "thinking" \notin entry.content
                                      /\ "toolCall" \notin entry.content
         ELSE entry.role \in {"compactionSummary", "branchSummary", "custom"}
    ELSE entry.type \in {"model_change", "thinking_level_change", "session_info"}

PiSkippedParents(entries, conv, resolved) ==
    LET skipped == {entries[conv[k]].id : k \in {j \in DOMAIN conv : PiWillSkip(entries[conv[j]])}}
    IN  [u \in skipped |-> resolved[u]]

\* The closure resolveParent(entryId) of transformConversation.
PiResolveParent(entryId, resolved, skippedParents) ==
    ResolveWalk(resolved[entryId], <<>>, skippedParents, WalkFuel).result

PiMessagesOf(entry, parentMessageRef) ==
    LET Msg(t) == [type |-> t, sourceRef |-> entry.id, timestamp |-> entry.timestamp,
                   parentMessageRef |-> parentMessageRef]
    IN  IF entry.type \in {"compaction", "branch_summary"} THEN <<Msg("system")>>
        ELSE IF entry.type = "message"
        THEN IF entry.role = "user"
             THEN IF HasText(entry.content) THEN <<Msg("user")>> ELSE <<>>
             ELSE IF entry.role = "assistant"
             THEN (IF HasText(entry.content) \/ "thinking" \in entry.content
                   THEN <<Msg("assistant")>> ELSE <<>>)
                  \o (IF "toolCall" \in entry.content THEN <<Msg("tool_calls")>> ELSE <<>>)
             ELSE <<>>
        ELSE <<>>

RECURSIVE PiSecondPass(_, _, _, _)
PiSecondPass(entries, todo, resolved, skippedParents) ==
    IF todo = <<>> THEN <<>>
    ELSE LET entry == entries[Head(todo)]
         IN  (IF entry.id \in DOMAIN skippedParents THEN <<>>
              ELSE PiMessagesOf(entry, PiResolveParent(entry.id, resolved, skippedParents)))
             \o PiSecondPass(entries, Tail(todo), resolved, skippedParents)

PiTransformConversation(entries, conv, resolved) ==
    PiSecondPass(entries, conv, resolved, PiSkippedParents(entries, conv, resolved))

(***************************************************************************)
(* The values the variables of a machine hold while another one runs.      *)
(***************************************************************************)
ParseOff ==
    /\ adapter = "off" /\ records = <<>> /\ ppc = "off"
    /\ conversations = <<>> /\ resolvedParents = EmptyGraph.resolvedParents
    /\ transcripts = <<>>

WalkOff ==
    /\ messages = <<>> /\ head = None /\ wpc = "off"
    /\ target = None /\ traceCurrent = None /\ path = <<>> /\ events = <<>>

WatchOff ==
    /\ lockFile = None
    /\ wst = [w \in Pids |-> "off"]
    /\ existing = [w \in Pids |-> None]
    /\ scanning = [w \in Pids |-> FALSE]
    /\ pollTimer = [w \in Pids |-> FALSE]
    /\ debounceTimer = [w \in Pids |-> FALSE]
    /\ activeScans = [w \in Pids |-> 0]
    /\ scanSkipped = [w \in Pids |-> FALSE]
    /\ readVer = [w \in Pids |-> 0]
    /\ srcVer = 0
    /\ arcVer = 0
    /\ failures = 0

\* The paths of the archive directory that belong to one session:
\* <archiveDir>/<sessionId>.json and its temporary files.
EntryPath == [kind |-> "entry", pid |-> None, now |-> None]

NoPath == [kind |-> "none", pid |-> None, now |-> None]

Paths ==
    {EntryPath} \cup {[kind |-> "tmp", pid |-> p, now |-> t] : p \in Pids, t \in 1..MaxNow}

ArchiveOff ==
    /\ dir = [q \in Paths |-> None]
    /\ inodes = [i \in 1..MaxSaves |-> <<>>]
    /\ saves = 0 /\ clock = 0
    /\ spc = [p \in Pids |-> "off"]
    /\ sTmp = [p \in Pids |-> NoPath]
    /\ sIno = [p \in Pids |-> None]
    /\ sVer = [p \in Pids |-> None]
    /\ sOff = [p \in Pids |-> 0]
    /\ rpc = "off" /\ rIno = None /\ rBuf = <<>> /\ rResult = "none"

ToolsOff ==
    /\ tAdapter = "off" /\ tRecs = <<>> /\ tpc = "off"
    /\ toolResults = <<>>
    /\ calls = <<>>

SessionsOff ==
    /\ discovered = <<>> /\ archiveStore = <<>> /\ allPc = "off"
    /\ passNo = 0 /\ sessIdx = 0 /\ allResult = <<>> /\ saveCount = 0

TitlesOff ==
    /\ entryFile = <<>> /\ sourceText = 0 /\ gpc = "off" /\ gEntry = <<>>
    /\ apc = "off" /\ aText = 0 /\ aStore = <<>> /\ aPasses = 0 /\ aSaves = 0

ConvertOff ==
    /\ outFiles = {} /\ indexFile = <<>> /\ cIndex = <<>> /\ removedEntries = {}
    /\ newOutputs = <<>> /\ newNames = <<>> /\ cpc = "off"

CacheOff == cacheMap = <<>> /\ cacheGot = None /\ cacheEvicted = FALSE

RerunOff ==
    /\ convRecs = <<>> /\ clockNow = 0 /\ runNo = 0 /\ firstEvents = <<>>

(***************************************************************************)
(* adapter.parse as a state machine.                                       *)
(***************************************************************************)
InitParse ==
    /\ WalkOff /\ WatchOff /\ ArchiveOff /\ ToolsOff /\ RerunOff /\ SessionsOff /\ TitlesOff /\ ConvertOff /\ CacheOff
    /\ adapter \in {"claude-code", "pi-coding-agent"}
    /\ \E n \in 0..MaxRecords :
         \E ids \in IdSeqs(n) :
           \E parents \in [1..n -> {None} \cup Ids] :
             IF adapter = "claude-code"
             THEN \E shapes \in [1..n -> ClaudeShapes] :
                    records = [i \in 1..n |->
                                 [uuid |-> ids[i], parentUuid |-> parents[i],
                                  type |-> shapes[i].type, content |-> shapes[i].content,
                                  timestamp |-> i]]
             ELSE \E shapes \in [1..n -> PiShapes] :
                    records = [i \in 1..n |->
                                 [id |-> ids[i], parentId |-> parents[i],
                                  type |-> shapes[i].type, role |-> shapes[i].role,
                                  content |-> shapes[i].content, timestamp |-> i]]
    /\ ppc = "start"
    /\ conversations = <<>>
    /\ resolvedParents = EmptyGraph.resolvedParents
    /\ transcripts = <<>>

\* claudeCodeAdapter.parse up to the return of splitConversations.
ClaudeSplit ==
    /\ adapter = "claude-code" /\ ppc = "start"
    /\ LET r == ClaudeSplitConversations(records)
       IN  /\ conversations' = r.conversations
           /\ resolvedParents' = r.resolvedParents
    /\ ppc' = "split"
    /\ UNCHANGED <<adapter, records, transcripts, notParseVars>>

\* claudeCodeAdapter.parse from there to its return.
ClaudeTransform ==
    /\ adapter = "claude-code" /\ ppc = "split"
    /\ transcripts' =
         IF conversations = <<>> THEN << <<>> >>
         ELSE [k \in DOMAIN conversations |->
                 ClaudeTransformConversation(records, conversations[k], resolvedParents)]
    /\ ppc' = "done"
    /\ UNCHANGED <<adapter, records, conversations, resolvedParents, notParseVars>>

\* piCodingAgentAdapter.parse up to the return of splitConversations.
PiSplit ==
    /\ adapter = "pi-coding-agent" /\ ppc = "start"
    /\ LET r == PiSplitConversations(records)
       IN  /\ conversations' = r.conversations
           /\ resolvedParents' = r.resolvedParents
    /\ ppc' = "split"
    /\ UNCHANGED <<adapter, records, transcripts, notParseVars>>

\* piCodingAgentAdapter.parse from there to its return.
PiTransform ==
    /\ adapter = "pi-coding-agent" /\ ppc = "split"
    /\ transcripts' =
         IF conversations = <<>> THEN << <<>> >>
         ELSE [k \in DOMAIN conversations |->
                 PiTransformConversation(records, conversations[k], resolvedParents)]
    /\ ppc' = "done"
    /\ UNCHANGED <<adapter, records, conversations, resolvedParents, notParseVars>>

NextParse == ClaudeSplit \/ ClaudeTransform \/ PiSplit \/ PiTransform

SpecParse == InitParse /\ [][NextParse]_vars

(***************************************************************************)
(* Vocabulary of the claims about adapter.parse.                           *)
(***************************************************************************)
IsClaude == adapter = "claude-code"

NodeId(i) == IF IsClaude THEN records[i].uuid ELSE records[i].id

NodeParent(i) == IF IsClaude THEN records[i].parentUuid ELSE records[i].parentId

\* The message nodes of the input, by file position: the records the
\* adapter's split works on.
MessageNodes ==
    IF IsClaude THEN Range(messageRecords(records)) ELSE DOMAIN records

\* How often node i occurs in the returned conversations.
Occurrences(i) ==
    Cardinality({kj \in {<<k, j>> : k \in DOMAIN conversations, j \in 1..MaxRecords} :
                   /\ kj[2] \in DOMAIN conversations[kj[1]]
                   /\ conversations[kj[1]][kj[2]] = i})

\* Ids reachable from id u by following raw parent pointers one or more times.
RECURSIVE RawAncestors(_, _)
RawAncestors(frontier, seen) ==
    LET next == {NodeParent(i) : i \in {j \in DOMAIN records : NodeId(j) \in frontier}}
                \ ({None} \cup seen)
    IN  IF next = {} THEN seen ELSE RawAncestors(next, seen \cup next)

OnRawCycle(i) == NodeId(i) \in RawAncestors({NodeId(i)}, {})

\* Ids reachable from id u by following resolvedParents one or more times.
RECURSIVE ResolvedAncestors(_, _)
ResolvedAncestors(frontier, seen) ==
    LET next == {resolvedParents[u] : u \in frontier} \ ({None} \cup seen)
    IN  IF next = {} THEN seen ELSE ResolvedAncestors(next, seen \cup next)

\* C1: after conversation splitting every message node of the input occurs
\* in exactly one returned conversation, exactly once, whatever the parent
\* pointers are (dangling, duplicate ids, cycles).
C1_EveryNodeInExactlyOneConversation ==
    ppc \in {"split", "done"} => \A i \in MessageNodes : Occurrences(i) = 1

\* C2: every message node on a cycle of parent pointers gets no resolved
\* parent and is the single member of a conversation of its own, and no
\* node is its own ancestor in the resolved-parent relation.
C2_CycleNodesBecomeSingleRoots ==
    ppc \in {"split", "done"} =>
        /\ \A i \in MessageNodes :
             OnRawCycle(i) =>
                 /\ resolvedParents[NodeId(i)] = None
                 /\ \E k \in DOMAIN conversations : conversations[k] = <<i>>
        /\ \A i \in MessageNodes : NodeId(i) \notin ResolvedAncestors({NodeId(i)}, {})

\* skippedParents of conversation k.
SkippedOf(k) ==
    IF IsClaude THEN ClaudeSkippedParents(records, conversations[k], resolvedParents)
    ELSE PiSkippedParents(records, conversations[k], resolvedParents)

\* The parent resolutions transformConversation runs for conversation k:
\* claude-code resolves for every record, pi-coding-agent for the entries
\* it does not skip.
ResolvedNodes(k) ==
    {i \in Range(conversations[k]) : IsClaude \/ NodeId(i) \notin DOMAIN SkippedOf(k)}

ResolutionOf(k, i) ==
    ResolveWalk(resolvedParents[NodeId(i)], <<>>, SkippedOf(k), WalkFuel)

\* C4: a resolution of an effective parent through elided nodes adds no id
\* twice to its visited set, follows at most N redirects for N records in
\* the file, and ends at an id that is not elided or at no parent.
C4_ResolveParentTerminates ==
    ppc = "done" =>
        \A k \in DOMAIN conversations : \A i \in ResolvedNodes(k) :
            LET w == ResolutionOf(k, i)
            IN  /\ NoDuplicates(w.visited)
                /\ Len(w.visited) <= Len(records)
                /\ w.result = None \/ w.result \notin DOMAIN SkippedOf(k)

\* A resolution that ran into a cycle of redirects and one that passed
\* through two elided nodes have both happened.
C4_Witness ==
    /\ ppc = "done"
    /\ \E k \in DOMAIN conversations : \E i \in ResolvedNodes(k) :
           ResolutionOf(k, i).cycle /\ Len(ResolutionOf(k, i).visited) >= 2

\* The node that carries id u (the last such message node in the file), or
\* None.
HolderOf(u) ==
    IF IsClaude
    THEN LastIndex({j \in DOMAIN records :
                      IsMessageRecord(records[j]) /\ records[j].uuid = u})
    ELSE LastIndex({j \in DOMAIN records : records[j].id = u})

\* Id u names a node that is elided: its record emits no message.
Elided(u) ==
    /\ HolderOf(u) # None
    /\ IF IsClaude THEN ClaudeWillSkip(records[HolderOf(u)])
       ELSE PiWillSkip(records[HolderOf(u)])

\* The n-th resolved ancestor of id u (n >= 1), None once the chain ends.
RECURSIVE ResolvedAncestorAt(_, _)
ResolvedAncestorAt(u, n) ==
    IF u = None THEN None
    ELSE IF n = 1 THEN resolvedParents[u]
    ELSE ResolvedAncestorAt(resolvedParents[u], n - 1)

\* The nearest ancestor of u in the resolved-parent chain that is not
\* elided, None when there is none.
NearestRenderedAncestor(u) ==
    LET hits == {n \in 1..(NumIds + 1) :
                   ResolvedAncestorAt(u, n) # None /\ ~Elided(ResolvedAncestorAt(u, n))}
    IN  IF hits = {} THEN None
        ELSE ResolvedAncestorAt(u, CHOOSE n \in hits : \A m \in hits : n <= m)

\* C5: the parent reference of every emitted message is the nearest
\* non-elided ancestor of its node in the resolved-parent chain, and absent
\* exactly when there is none; it never names an elided node.
C5_ParentIsNearestRenderedAncestor ==
    ppc = "done" =>
        \A k \in DOMAIN transcripts : \A j \in DOMAIN transcripts[k] :
            LET m == transcripts[k][j]
            IN  /\ m.parentMessageRef = NearestRenderedAncestor(m.sourceRef)
                /\ m.parentMessageRef # None => ~Elided(m.parentMessageRef)

\* A message whose resolved parent is elided was emitted with the parent of
\* that elided node as its parent reference.
C5_Witness ==
    /\ ppc = "done"
    /\ \E k \in DOMAIN transcripts : \E j \in DOMAIN transcripts[k] :
           LET m == transcripts[k][j]
           IN  /\ resolvedParents[m.sourceRef] # None
               /\ Elided(resolvedParents[m.sourceRef])
               /\ m.parentMessageRef \notin {None, m.sourceRef}
               /\ m.parentMessageRef = resolvedParents[resolvedParents[m.sourceRef]]

\* The ids of the message nodes.
MessageIds == {NodeId(i) : i \in MessageNodes}

\* The roots: the message nodes without a resolved parent.
RootIds == {u \in MessageIds : resolvedParents[u] = None}

\* The nodes reachable from u under the resolved-parent relation: u and
\* every node whose chain of resolved parents leads to u.
ReachableFrom(u) == {u} \cup {v \in MessageIds : u \in ResolvedAncestors({v}, {})}

\* The ids of the nodes collected into conversation k.
ConversationIds(k) == {NodeId(i) : i \in Range(conversations[k])}

\* C13: every root starts a conversation, every conversation starts at a
\* root, and the nodes collected into the conversation of a root are
\* exactly the nodes reachable from it under the resolved-parent relation.
C13_ConversationIsReachableSet ==
    ppc \in {"split", "done"} =>
        /\ \A u \in RootIds :
             \E k \in DOMAIN conversations : NodeId(conversations[k][1]) = u
        /\ \A k \in DOMAIN conversations :
             /\ NodeId(conversations[k][1]) \in RootIds
             /\ ConversationIds(k) = ReachableFrom(NodeId(conversations[k][1]))

\* The ids that may be the first message-bearing node met on the way up
\* from id cur along parent pointers, through nodes that bear no message:
\* None when the chain ends, names no node, or comes back to an id already
\* passed.  Where several records carry the id passed, each one's parent
\* pointer may be the one followed.
RECURSIVE NearestMessageIds(_, _)
NearestMessageIds(cur, seen) ==
    IF cur = None \/ cur \in seen THEN {None}
    ELSE IF cur \in MessageIds THEN {cur}
    ELSE LET holders == {j \in DOMAIN records : NodeId(j) = cur}
         IN  IF holders = {} THEN {None}
             ELSE UNION {NearestMessageIds(NodeParent(j), seen \cup {cur}) : j \in holders}

\* C14: the resolved parent of every message node is the first
\* message-bearing node met when following parent pointers upward from it
\* through non-message nodes, and none when the chain ends, leaves the
\* node set or revisits an id.
C14_ResolvedParentIsNearestMessage ==
    ppc \in {"split", "done"} =>
        \A i \in MessageNodes :
            resolvedParents[NodeId(i)] \in NearestMessageIds(NodeParent(i), {})

\* The timestamp of the first node of conversation k (the root the
\* traversal started from) and of its earliest node.
FirstNodeTime(k) == records[conversations[k][1]].timestamp

EarliestNodeTime(k) ==
    CHOOSE t \in {records[i].timestamp : i \in Range(conversations[k])} :
        \A i \in Range(conversations[k]) : t <= records[i].timestamp

DanglingParent(i) ==
    /\ NodeParent(i) # None
    /\ \A j \in DOMAIN records : NodeId(j) # NodeParent(i)

\* The message nodes below node i: their parent pointers lead up to i.
NodesBelow(i) ==
    {j \in MessageNodes : NodeId(i) \in RawAncestors({NodeId(j)}, {})}

\* Node j is rendered: transformConversation does not elide it.
Rendered(j) ==
    IF IsClaude THEN ~ClaudeWillSkip(records[j]) ELSE ~PiWillSkip(records[j])

\* C19: a message node whose parent id names no record of the input gets no
\* resolved parent and starts a conversation; that conversation holds the
\* node and every node below it, and the transcript built from it holds a
\* message of each of them that is rendered.
C19_DanglingParentMakesRoot ==
    ppc \in {"split", "done"} =>
        \A i \in MessageNodes :
            DanglingParent(i) =>
                /\ resolvedParents[NodeId(i)] = None
                /\ \E k \in DOMAIN conversations :
                     /\ conversations[k][1] = i
                     /\ \A j \in {i} \cup NodesBelow(i) :
                          /\ j \in Range(conversations[k])
                          /\ (ppc = "done" /\ Rendered(j)) =>
                                \E m \in DOMAIN transcripts[k] :
                                    transcripts[k][m].sourceRef = NodeId(j)

(***************************************************************************)
(* Tree navigation: buildTree, findLatestLeaf.                             *)
(*                                                                         *)
(* A message is [sourceRef, parentMessageRef, timestamp].  Timestamps are  *)
(* valid dates after the epoch, 1..MaxTs.                                  *)
(***************************************************************************)
\* bySourceRef.has(r)
bySourceRefHas(msgs, r) == \E i \in DOMAIN msgs : msgs[i].sourceRef = r

\* bySourceRef.get(r): the messages of r, by position, in input order.
bySourceRefGet(msgs, r) ==
    SelectSeq(Indices(Len(msgs)), LAMBDA i : msgs[i].sourceRef = r)

\* bySourceRef.keys(): the distinct sourceRefs in order of first appearance.
bySourceRefKeys(msgs) ==
    LET F[i \in 0..Len(msgs)] ==
            IF i = 0 THEN <<>>
            ELSE IF msgs[i].sourceRef \in Range(F[i - 1]) THEN F[i - 1]
            ELSE Append(F[i - 1], msgs[i].sourceRef)
    IN  F[Len(msgs)]

\* The test of buildTree's second loop: the message names a parent that is
\* among the messages.
HasKnownParent(msgs, i) ==
    /\ msgs[i].parentMessageRef # None
    /\ bySourceRefHas(msgs, msgs[i].parentMessageRef)

\* parents.get(r): the last parents.set for r wins.
parentsGet(msgs, r) ==
    LET i == LastIndex({j \in DOMAIN msgs : msgs[j].sourceRef = r /\ HasKnownParent(msgs, j)})
    IN  IF i = None THEN None ELSE msgs[i].parentMessageRef

\* children.get(r): a Set, iterated in insertion order.
childrenGet(msgs, r) ==
    LET F[i \in 0..Len(msgs)] ==
            IF i = 0 THEN <<>>
            ELSE IF /\ HasKnownParent(msgs, i)
                    /\ msgs[i].parentMessageRef = r
                    /\ msgs[i].sourceRef \notin Range(F[i - 1])
                 THEN Append(F[i - 1], msgs[i].sourceRef)
                 ELSE F[i - 1]
    IN  F[Len(msgs)]

\* new Date(msgs[0].timestamp).getTime() of the messages of r
TimeOf(msgs, r) == msgs[bySourceRefGet(msgs, r)[1]].timestamp

\* findLatestLeaf's loop with >= in place of >.
RECURSIVE LatestLeafScanLastWins(_, _, _, _)
LatestLeafScanLastWins(msgs, keys, latestLeaf, latestTime) ==
    IF keys = <<>> THEN latestLeaf
    ELSE LET sourceRef == Head(keys)
         IN  IF childrenGet(msgs, sourceRef) = <<>> /\ TimeOf(msgs, sourceRef) >= latestTime
             THEN LatestLeafScanLastWins(msgs, Tail(keys), sourceRef, TimeOf(msgs, sourceRef))
             ELSE LatestLeafScanLastWins(msgs, Tail(keys), latestLeaf, latestTime)

\* The loop of findLatestLeaf over bySourceRef.keys().
RECURSIVE LatestLeafScan(_, _, _, _)
LatestLeafScan(msgs, keys, latestLeaf, latestTime) ==
    IF keys = <<>> THEN latestLeaf
    ELSE LET sourceRef == Head(keys)
         IN  IF childrenGet(msgs, sourceRef) = <<>> /\ TimeOf(msgs, sourceRef) > latestTime
             THEN LatestLeafScan(msgs, Tail(keys), sourceRef, TimeOf(msgs, sourceRef))
             ELSE LatestLeafScan(msgs, Tail(keys), latestLeaf, latestTime)

findLatestLeaf(msgs) == LatestLeafScan(msgs, bySourceRefKeys(msgs), None, 0)

(***************************************************************************)
(* walkTranscriptTree.                                                     *)
(***************************************************************************)
EmptyEvent ==
    [type |-> "empty", sourceRef |-> None, messages |-> <<>>, branches |-> <<>>,
     head |-> None]

HeadNotFoundEvent(h) ==
    [type |-> "head_not_found", sourceRef |-> None, messages |-> <<>>,
     branches |-> <<>>, head |-> h]

\* A messages event: the messages by position; sourceRef is None for the
\* fallback event that carries all messages.
MessagesEvent(r, ms) ==
    [type |-> "messages", sourceRef |-> r, messages |-> ms, branches |-> <<>>,
     head |-> None]

BranchNoteEvent(bs) ==
    [type |-> "branch_note", sourceRef |-> None, messages |-> <<>>, branches |-> bs,
     head |-> None]

\* Target resolution that takes the head without looking it up.
SelectTargetNoLookup(msgs, h) ==
    IF h # None THEN [found |-> TRUE, target |-> h]
    ELSE [found |-> TRUE, target |-> findLatestLeaf(msgs)]

\* Target resolution: the head when given and present, else the latest leaf.
SelectTarget(msgs, h) ==
    IF h # None
    THEN IF ~bySourceRefHas(msgs, h) THEN [found |-> FALSE, target |-> None]
         ELSE [found |-> TRUE, target |-> h]
    ELSE [found |-> TRUE, target |-> findLatestLeaf(msgs)]

\* The length at which path.unshift fails.  The engine's limit on the length
\* of an array (and on memory) is far larger; any limit above the number of
\* nodes is reached by the same walks.
PathCap == MaxMsgs + 2

\* A branch note that lists every child of the node.
BranchesOfAll(msgs, sourceRef, pathSet) ==
    SelectSeq(childrenGet(msgs, sourceRef), LAMBDA c : bySourceRefGet(msgs, c) # <<>>)

\* The branch note of one path node: its children that are not on the path.
BranchesOf(msgs, sourceRef, pathSet) ==
    SelectSeq(childrenGet(msgs, sourceRef),
              LAMBDA c : c \notin pathSet /\ bySourceRefGet(msgs, c) # <<>>)

\* The events of one iteration of the loop over path.
EventsAt(msgs, sourceRef, pathSet, h) ==
    IF bySourceRefGet(msgs, sourceRef) = <<>> THEN <<>>
    ELSE <<MessagesEvent(sourceRef, bySourceRefGet(msgs, sourceRef))>>
         \o (IF /\ h = None
                /\ Len(childrenGet(msgs, sourceRef)) > 1
                /\ BranchesOf(msgs, sourceRef, pathSet) # <<>>
             THEN <<BranchNoteEvent(BranchesOf(msgs, sourceRef, pathSet))>>
             ELSE <<>>)

RECURSIVE EventsAlong(_, _, _, _)
EventsAlong(msgs, todo, pathSet, h) ==
    IF todo = <<>> THEN <<>>
    ELSE EventsAt(msgs, Head(todo), pathSet, h)
         \o EventsAlong(msgs, Tail(todo), pathSet, h)

\* Runs of equal sourceRefs: 1, then each next ref equal to the one before
\* or one larger (the messages of one record are adjacent).
RECURSIVE RunSeqs(_)
RunSeqs(n) ==
    IF n = 0 THEN {<<>>}
    ELSE IF n = 1 THEN {<<1>>}
    ELSE UNION { {Append(s, s[n - 1]), Append(s, s[n - 1] + 1)} : s \in RunSeqs(n - 1) }

InitWalk ==
    /\ ParseOff /\ WatchOff /\ ArchiveOff /\ ToolsOff /\ RerunOff /\ SessionsOff /\ TitlesOff /\ ConvertOff /\ CacheOff
    /\ \E n \in 0..MaxMsgs : \E refs \in RunSeqs(n) :
         LET m == IF n = 0 THEN 0 ELSE refs[n]
         IN  /\ \E parents \in [1..m -> {None} \cup Ids] :
                  \E times \in [1..m -> 1..MaxTs] :
                    messages = [i \in 1..n |->
                                  [sourceRef |-> refs[i],
                                   parentMessageRef |-> parents[refs[i]],
                                   timestamp |-> times[refs[i]]]]
             /\ head \in 0..(m + 1)
    /\ wpc = "start"
    /\ target = None /\ traceCurrent = None /\ path = <<>> /\ events = <<>>

\* walkTranscriptTree's start with the head looked up before the test for
\* an empty transcript.
WalkStartHeadFirst ==
    /\ wpc = "start"
    /\ LET sel == SelectTarget(messages, head)
       IN  IF ~sel.found
           THEN /\ events' = <<HeadNotFoundEvent(head)>>
                /\ wpc' = "done"
                /\ UNCHANGED <<target, traceCurrent>>
           ELSE IF messages = <<>>
           THEN /\ events' = <<EmptyEvent>>
                /\ wpc' = "done"
                /\ UNCHANGED <<target, traceCurrent>>
           ELSE IF sel.target = None
           THEN /\ events' = <<MessagesEvent(None, Indices(Len(messages)))>>
                /\ wpc' = "done"
                /\ UNCHANGED <<target, traceCurrent>>
           ELSE /\ target' = sel.target
                /\ traceCurrent' = sel.target
                /\ wpc' = "trace"
                /\ UNCHANGED events
    /\ UNCHANGED <<messages, head, path, notWalkVars>>

\* walkTranscriptTree up to the call of tracePath, or to its early return.
WalkStart ==
    /\ wpc = "start"
    /\ IF messages = <<>>
       THEN /\ events' = <<EmptyEvent>>
            /\ wpc' = "done"
            /\ UNCHANGED <<target, traceCurrent>>
       ELSE LET sel == SelectTarget(messages, head)
            IN  IF ~sel.found
                THEN /\ events' = <<HeadNotFoundEvent(head)>>
                     /\ wpc' = "done"
                     /\ UNCHANGED <<target, traceCurrent>>
                ELSE IF sel.target = None
                THEN /\ events' = <<MessagesEvent(None, Indices(Len(messages)))>>
                     /\ wpc' = "done"
                     /\ UNCHANGED <<target, traceCurrent>>
                ELSE /\ target' = sel.target
                     /\ traceCurrent' = sel.target
                     /\ wpc' = "trace"
                     /\ UNCHANGED events
    /\ UNCHANGED <<messages, head, path, notWalkVars>>

\* tracePath's iteration with path.push in place of path.unshift.
TraceStepPush ==
    /\ wpc = "trace" /\ traceCurrent # None
    /\ IF Len(path) < PathCap
       THEN /\ path' = Append(path, traceCurrent)
            /\ traceCurrent' = parentsGet(messages, traceCurrent)
            /\ UNCHANGED wpc
       ELSE /\ wpc' = "exhausted"
            /\ UNCHANGED <<path, traceCurrent>>
    /\ UNCHANGED <<messages, head, target, events, notWalkVars>>

\* One iteration of tracePath's while loop.  The loop has no other exit than
\* an absent parent: a walk that goes on ends when path cannot grow.
TraceStep ==
    /\ wpc = "trace" /\ traceCurrent # None
    /\ IF Len(path) < PathCap
       THEN /\ path' = <<traceCurrent>> \o path
            /\ traceCurrent' = parentsGet(messages, traceCurrent)
            /\ UNCHANGED wpc
       ELSE /\ wpc' = "exhausted"
            /\ UNCHANGED <<path, traceCurrent>>
    /\ UNCHANGED <<messages, head, target, events, notWalkVars>>

\* tracePath's loop ends and it returns path.
TraceReturn ==
    /\ wpc = "trace" /\ traceCurrent = None
    /\ wpc' = "emit"
    /\ UNCHANGED <<messages, head, target, traceCurrent, path, events, notWalkVars>>

\* The loop over path, drained by the consumer.
WalkEmit ==
    /\ wpc = "emit"
    /\ events' = EventsAlong(messages, path, Range(path), head)
    /\ wpc' = "done"
    /\ UNCHANGED <<messages, head, target, traceCurrent, path, notWalkVars>>

NextWalk == WalkStart \/ TraceStep \/ TraceReturn \/ WalkEmit

SpecWalk == InitWalk /\ [][NextWalk]_vars

(***************************************************************************)
(* Vocabulary of the claims about the tree walk.                           *)
(***************************************************************************)
SourceRefs == {messages[i].sourceRef : i \in DOMAIN messages}

FirstPos(r) ==
    CHOOSE i \in DOMAIN messages :
        /\ messages[i].sourceRef = r
        /\ \A j \in DOMAIN messages : messages[j].sourceRef = r => i <= j

\* The parent of a node in the tree: the node its messages name, when that
\* node is among the messages.
TreeParent(r) ==
    IF r \notin SourceRefs THEN None
    ELSE LET p == messages[FirstPos(r)].parentMessageRef
         IN  IF p \in SourceRefs THEN p ELSE None

Leaves == {r \in SourceRefs : \A c \in SourceRefs : TreeParent(c) # r}

Timestamp(r) == messages[FirstPos(r)].timestamp

HeadPresent == head # None /\ head \in SourceRefs

HeadAbsent == head # None /\ head \notin SourceRefs

MessagesEvents == SelectSeq(events, LAMBDA e : e.type = "messages")

\* C3: for every transcript and every head, the walk from the target back
\* to the root completes: it passes no more nodes than the transcript has
\* (a walk along parent references that passes more has met a node twice
\* and goes round for ever), and the event sequence ends.
C3_WalkCompletes ==
    /\ Len(path) <= Cardinality(SourceRefs)
    /\ wpc # "exhausted"

EventsFollowPathToHead ==
    LET ms == MessagesEvents
    IN  /\ ms # <<>>
        /\ ms[Len(ms)].sourceRef = head
        /\ TreeParent(ms[1].sourceRef) = None
        /\ \A i \in 2..Len(ms) : TreeParent(ms[i].sourceRef) = ms[i - 1].sourceRef

\* C9: when the head is present among the nodes, the walk ends with the
\* messages events following the path from a root to the head, the last
\* of them being the head's.
C9_PresentHeadEndsPath ==
    (wpc \in {"done", "exhausted"} /\ HeadPresent) =>
        (wpc = "done" /\ EventsFollowPathToHead)

\* C10 as stated: when the head matches no node, the event sequence is
\* exactly one head_not_found event carrying that id.
C10_AbsentHeadIsNotFound ==
    (wpc = "done" /\ HeadAbsent) => events = <<HeadNotFoundEvent(head)>>

\* C10 amended: when the head matches no node of a transcript that has
\* messages, the event sequence is exactly one head_not_found event
\* carrying that id; for a transcript without messages it is exactly one
\* empty event.
C10_AbsentHeadIsNotFoundOrEmpty ==
    (wpc = "done" /\ HeadAbsent) =>
        events = IF messages = <<>> THEN <<EmptyEvent>> ELSE <<HeadNotFoundEvent(head)>>

\* A transcript with messages was walked with a head that none of them has.
C10_Witness ==
    /\ wpc = "done" /\ HeadAbsent /\ messages # <<>>
    /\ events = <<HeadNotFoundEvent(head)>>

\* The sourceRefs of the messages events, in the order emitted.
EmittedRefs == [i \in DOMAIN MessagesEvents |-> MessagesEvents[i].sourceRef]

\* C11: a path that tracePath returns starts at a node without a parent in
\* the tree, each later node's parent is the node just before it, no node
\* is on it twice, and the messages events are those of its nodes in that
\* order.
C11_PathIsRootFirstChain ==
    (wpc \in {"emit", "done"} /\ target # None) =>
        /\ path # <<>>
        /\ TreeParent(path[1]) = None
        /\ \A i \in 2..Len(path) : TreeParent(path[i]) = path[i - 1]
        /\ \A i, j \in DOMAIN path : path[i] = path[j] => i = j
        /\ path[Len(path)] = target
        /\ wpc = "done" => EmittedRefs = path

\* A path of two nodes was emitted for a head that has a child of its own.
C11_Witness ==
    /\ wpc = "done" /\ Len(path) = 2 /\ EmittedRefs = path
    /\ head = path[2] /\ head \notin Leaves

\* The children of a node in the tree.
Children(r) == {c \in SourceRefs : TreeParent(c) = r}

\* C12: in default mode the messages event of a path node is directly
\* followed by a branch_note event exactly when the node has more than one
\* child, and the note lists the node's children that are not on the path,
\* each once; every branch_note directly follows a messages event; with an
\* explicit head no branch_note is emitted.
C12_BranchNotesAtForks ==
    (wpc = "done" /\ target # None) =>
        /\ \A i \in DOMAIN events :
             events[i].type = "messages" =>
               LET r    == events[i].sourceRef
                   note == i < Len(events) /\ events[i + 1].type = "branch_note"
               IN  /\ note <=> (head = None /\ Cardinality(Children(r)) > 1)
                   /\ note =>
                        LET bs == events[i + 1].branches
                        IN  /\ Range(bs) = Children(r) \ Range(path)
                            /\ \A j, k \in DOMAIN bs : bs[j] = bs[k] => j = k
        /\ \A i \in DOMAIN events :
             events[i].type = "branch_note" => i > 1 /\ events[i - 1].type = "messages"
        /\ head # None => \A i \in DOMAIN events : events[i].type # "branch_note"

\* Default mode: a node with two children, one on the path, was followed by
\* a note that lists the other.
C12_Witness ==
    /\ wpc = "done" /\ head = None
    /\ \E i \in DOMAIN events :
         /\ events[i].type = "branch_note"
         /\ Len(events[i].branches) = 1
         /\ events[i].branches[1] \notin Range(path)
         /\ Cardinality(Children(events[i - 1].sourceRef)) = 2

(***************************************************************************)
(* ArchiveWatcher: acquireLock, start, stop, scan.                         *)
(*                                                                         *)
(* Each watcher runs in a process of its own and is named by its pid.      *)
(* acquireLock has an await before readFile and before writeFile, so other *)
(* processes run between its steps.                                        *)
(***************************************************************************)
\* The pid of a process that has ended, left in a stale lock file.
StalePid == NumProcs + 1

\* process.kill(pid, 0) does not throw.
Alive(pid) == pid \in Pids /\ wst[pid] # "dead"

\* The watcher passed acquireLock and has neither stopped nor ended.
Started(w) == wst[w] \in {"scan", "running"}

InitWatch ==
    /\ ParseOff /\ WalkOff /\ ArchiveOff /\ ToolsOff /\ RerunOff /\ SessionsOff /\ TitlesOff /\ ConvertOff /\ CacheOff
    /\ lockFile \in {None, StalePid}
    /\ wst = [w \in Pids |-> "new"]
    /\ existing = [w \in Pids |-> None]
    /\ scanning = [w \in Pids |-> FALSE]
    /\ pollTimer = [w \in Pids |-> FALSE]
    /\ debounceTimer = [w \in Pids |-> FALSE]
    /\ activeScans = [w \in Pids |-> 0]
    /\ scanSkipped = [w \in Pids |-> FALSE]
    /\ readVer = [w \in Pids |-> 0]
    /\ srcVer = 0
    /\ arcVer = 0
    /\ failures = 0

\* One watcher is constructed on the archive directory; no other process
\* runs a watcher.
InitOneWatcher ==
    /\ ParseOff /\ WalkOff /\ ArchiveOff /\ ToolsOff /\ RerunOff /\ SessionsOff /\ TitlesOff /\ ConvertOff /\ CacheOff
    /\ lockFile \in {None, StalePid}
    /\ wst = [w \in Pids |-> IF w = 1 THEN "new" ELSE "dead"]
    /\ existing = [w \in Pids |-> None]
    /\ scanning = [w \in Pids |-> FALSE]
    /\ pollTimer = [w \in Pids |-> FALSE]
    /\ debounceTimer = [w \in Pids |-> FALSE]
    /\ activeScans = [w \in Pids |-> 0]
    /\ scanSkipped = [w \in Pids |-> FALSE]
    /\ readVer = [w \in Pids |-> 0]
    /\ srcVer = 0
    /\ arcVer = 0
    /\ failures = 0

\* scan() without its first line: every call starts an archive pass.
scanUnguarded(w) ==
    /\ scanning' = [scanning EXCEPT ![w] = TRUE]
    /\ activeScans' = [activeScans EXCEPT ![w] = @ + 1]
    /\ readVer' = [readVer EXCEPT ![w] = srcVer]
    /\ UNCHANGED scanSkipped

\* scan() up to its first await: if (this.scanning) return;
\* this.scanning = true; then archiveAll discovers and reads the sources.
scan(w) ==
    IF scanning[w]
    THEN /\ scanSkipped' = [scanSkipped EXCEPT ![w] = TRUE]
         /\ UNCHANGED <<scanning, activeScans, readVer>>
    ELSE /\ scanning' = [scanning EXCEPT ![w] = TRUE]
         /\ activeScans' = [activeScans EXCEPT ![w] = @ + 1]
         /\ readVer' = [readVer EXCEPT ![w] = srcVer]
         /\ UNCHANGED scanSkipped

\* start() is called and acquireLock awaits mkdir.
Start(w) ==
    /\ wst[w] = "new"
    /\ wst' = [wst EXCEPT ![w] = "read"]
    /\ UNCHANGED <<lockFile, existing, scanning, pollTimer, debounceTimer,
                   activeScans, scanSkipped, readVer, srcVer, arcVer, failures,
                   notWatchVars>>

\* acquireLock: existing = await readFile(lock).catch(() => null)
AcquireRead(w) ==
    /\ wst[w] = "read"
    /\ existing' = [existing EXCEPT ![w] = lockFile]
    /\ wst' = [wst EXCEPT ![w] = "check"]
    /\ UNCHANGED <<lockFile, scanning, pollTimer, debounceTimer,
                   activeScans, scanSkipped, readVer, srcVer, arcVer, failures,
                   notWatchVars>>

\* acquireLock: the test of the pid read; a live owner makes it return
\* false and start() throw "Another watcher is already running".
AcquireCheck(w) ==
    /\ wst[w] = "check"
    /\ wst' = [wst EXCEPT ![w] =
                 IF existing[w] # None /\ Alive(existing[w]) THEN "failed" ELSE "write"]
    /\ UNCHANGED <<lockFile, existing, scanning, pollTimer, debounceTimer,
                   activeScans, scanSkipped, readVer, srcVer, arcVer, failures,
                   notWatchVars>>

\* acquireLock: writeFile(lock, pid, {flag: "w"}) and return true; start()
\* goes on to its initial scan.
AcquireWrite(w) ==
    /\ wst[w] = "write"
    /\ lockFile' = w
    /\ wst' = [wst EXCEPT ![w] = "scan"]
    /\ scan(w)
    /\ UNCHANGED <<existing, pollTimer, debounceTimer, srcVer, arcVer, failures,
                   notWatchVars>>

\* After its initial scan start() sets up fs.watch and the poll timer and
\* returns.
AfterScan(w) ==
    IF wst[w] = "scan"
    THEN /\ wst' = [wst EXCEPT ![w] = "running"]
         /\ pollTimer' = [pollTimer EXCEPT ![w] = TRUE]
    ELSE UNCHANGED <<wst, pollTimer>>

\* scan() ends: archiveAll has stored what it read of the sources
\* (finally: scanning = false).
ScanEnd(w) ==
    /\ activeScans[w] > 0
    /\ arcVer' = readVer[w]
    /\ scanning' = [scanning EXCEPT ![w] = FALSE]
    /\ activeScans' = [activeScans EXCEPT ![w] = @ - 1]
    /\ AfterScan(w)
    /\ UNCHANGED <<lockFile, existing, debounceTimer, scanSkipped, readVer, srcVer,
                   failures, notWatchVars>>

\* A failing scan that leaves this.scanning set.
ScanFailNoFinally(w) ==
    /\ activeScans[w] > 0
    /\ failures < MaxFailures
    /\ failures' = failures + 1
    /\ activeScans' = [activeScans EXCEPT ![w] = @ - 1]
    /\ AfterScan(w)
    /\ UNCHANGED <<lockFile, existing, scanning, debounceTimer, scanSkipped, readVer,
                   srcVer, arcVer, notWatchVars>>

\* scan() fails: archiveAll throws, or records the session under errors;
\* onError is called and nothing is stored (finally: scanning = false).
ScanFail(w) ==
    /\ activeScans[w] > 0
    /\ failures < MaxFailures
    /\ failures' = failures + 1
    /\ scanning' = [scanning EXCEPT ![w] = FALSE]
    /\ activeScans' = [activeScans EXCEPT ![w] = @ - 1]
    /\ AfterScan(w)
    /\ UNCHANGED <<lockFile, existing, debounceTimer, scanSkipped, readVer, srcVer,
                   arcVer, notWatchVars>>

\* A .jsonl source file changes and fs.watch reports it: debouncedScan().
FileEvent(w) ==
    /\ wst[w] = "running"
    /\ srcVer < MaxChanges
    /\ srcVer' = srcVer + 1
    /\ debounceTimer' = [debounceTimer EXCEPT ![w] = TRUE]
    /\ UNCHANGED <<lockFile, wst, existing, scanning, pollTimer,
                   activeScans, scanSkipped, readVer, arcVer, failures, notWatchVars>>

\* A .jsonl source file changes and no fs.watch callback runs for it (no
\* watcher is set up yet, or the platform drops the event).
SourceChange ==
    /\ srcVer < MaxChanges
    /\ srcVer' = srcVer + 1
    /\ UNCHANGED <<lockFile, wst, existing, scanning, pollTimer, debounceTimer,
                   activeScans, scanSkipped, readVer, arcVer, failures, notWatchVars>>

\* The debounce timer fires: scan().
DebounceFire(w) ==
    /\ debounceTimer[w]
    /\ wst[w] # "dead"
    /\ debounceTimer' = [debounceTimer EXCEPT ![w] = FALSE]
    /\ scan(w)
    /\ UNCHANGED <<lockFile, wst, existing, pollTimer, srcVer, arcVer, failures,
                   notWatchVars>>

\* The poll timer fires: scan().
PollFire(w) ==
    /\ pollTimer[w]
    /\ wst[w] # "dead"
    /\ scan(w)
    /\ UNCHANGED <<lockFile, wst, existing, pollTimer, debounceTimer, srcVer, arcVer,
                   failures, notWatchVars>>

\* stop(): close the fs watchers, clear the poll timer, releaseLock.
Stop(w) ==
    /\ wst[w] \in {"new", "failed", "running"}
    /\ wst' = [wst EXCEPT ![w] = "stopped"]
    /\ pollTimer' = [pollTimer EXCEPT ![w] = FALSE]
    /\ lockFile' = None
    /\ UNCHANGED <<existing, scanning, debounceTimer, activeScans, scanSkipped,
                   readVer, srcVer, arcVer, failures, notWatchVars>>

\* The process ends without stop(), as on SIGKILL: its lock file stays.
Killed(w) ==
    /\ Started(w)
    /\ wst' = [wst EXCEPT ![w] = "dead"]
    /\ scanning' = [scanning EXCEPT ![w] = FALSE]
    /\ pollTimer' = [pollTimer EXCEPT ![w] = FALSE]
    /\ debounceTimer' = [debounceTimer EXCEPT ![w] = FALSE]
    /\ activeScans' = [activeScans EXCEPT ![w] = 0]
    /\ UNCHANGED <<lockFile, existing, scanSkipped, readVer, srcVer, arcVer, failures,
                   notWatchVars>>

NextWatch ==
    \/ SourceChange
    \/ \E w \in Pids :
        \/ Start(w) \/ AcquireRead(w) \/ AcquireCheck(w) \/ AcquireWrite(w)
        \/ ScanEnd(w) \/ ScanFail(w) \/ FileEvent(w) \/ DebounceFire(w)
        \/ PollFire(w) \/ Stop(w) \/ Killed(w)

SpecWatch == InitWatch /\ [][NextWatch]_vars

SpecOneWatcher == InitOneWatcher /\ [][NextWatch]_vars

\* The event loop runs every timer callback that is due, and the awaited
\* archiveAll of a scan returns or throws.
WatchFairness ==
    \A w \in Pids :
        /\ WF_vars(PollFire(w))
        /\ WF_vars(DebounceFire(w))
        /\ WF_vars(ScanEnd(w) \/ ScanFail(w))

SpecOneWatcherFair == SpecOneWatcher /\ WatchFairness

\* C6: at any time at most one watcher of the archive directory has passed
\* start() and is running; of two concurrent start() calls at most one
\* succeeds.
C6_AtMostOneWatcher == Cardinality({w \in Pids : Started(w)}) <= 1

\* C23: within one watcher at most one scan is in progress at any time: a
\* scan requested by the debounce timer or the poll timer while another
\* scan is still running does not start a second archive pass.
C23_AtMostOneScan ==
    \A w \in Pids :
        /\ activeScans[w] <= 1
        /\ scanning[w] <=> activeScans[w] = 1

\* A timer asked for a scan while one was running, and one pass is running.
C23_Witness ==
    \E w \in Pids :
        /\ wst[w] = "running"
        /\ scanSkipped[w]
        /\ activeScans[w] = 1

\* C24: while a watcher keeps running, every change to a .jsonl source
\* file is eventually archived (or the watcher is stopped or ends first),
\* also when the scan request of the change arrives during a scan and when
\* scans before it failed.
C24_ChangeEventuallyArchived ==
    \A w \in Pids : \A v \in 1..MaxChanges :
        (wst[w] = "running" /\ srcVer = v) ~> (arcVer >= v \/ wst[w] # "running")

\* The last change is archived by a running watcher that dropped a scan
\* request and had a scan fail.
C24_Witness ==
    \E w \in Pids :
        /\ wst[w] = "running"
        /\ scanSkipped[w]
        /\ failures > 0
        /\ srcVer = MaxChanges
        /\ arcVer = srcVer

\* C25: after stop() returns, the watcher starts no further scan, even
\* when a file event was received less than 500 ms before stop().
C25_NoScanAfterStop ==
    [][\A w \in Pids : wst[w] = "stopped" => activeScans'[w] <= activeScans[w]]_vars

\* C26: the lock file of an archive directory is removed only by the
\* watcher that acquired it: while the watcher named in the lock file is
\* running, the only step that removes the file is that watcher's stop().
C26_LockRemovedOnlyByOwner ==
    [][(lockFile \in Pids /\ Started(lockFile) /\ lockFile' = None)
          => wst'[lockFile] = "stopped"]_vars

(***************************************************************************)
(* saveEntry / loadEntry on the entry file of one session.                 *)
(*                                                                         *)
(* Within a process the calls of saveEntry are awaited one after another   *)
(* (archiveAll, generateTitles, the scans of a watcher), so concurrent     *)
(* saves come from different processes.  A file is an inode; a path of the *)
(* directory names an inode, and an open file keeps its inode whatever the *)
(* directory does afterwards.  An entry's content takes NumChunks write    *)
(* calls to store and as many read calls to load; chunk k of version v of  *)
(* the entry is written as v.                                              *)
(***************************************************************************)
\* JSON.stringify(entry) of version v, complete.
Complete(v) == [k \in 1..NumChunks |-> v]

\* pwrite of one chunk at position k; a gap before it reads as zeros.
WriteAt(c, k, v) ==
    [i \in 1..Max(Len(c), k) |-> IF i = k THEN v ELSE IF i <= Len(c) THEN c[i] ELSE 0]

\* Saving into the entry file itself.
TmpPathInPlace(pid, now) == EntryPath

\* tmpPath = `${filePath}.${process.pid}.${Date.now()}.tmp`
TmpPath(pid, now) == [kind |-> "tmp", pid |-> pid, now |-> now]

InitArchive ==
    /\ ParseOff /\ WalkOff /\ WatchOff /\ ToolsOff /\ RerunOff /\ SessionsOff /\ TitlesOff /\ ConvertOff /\ CacheOff
    /\ \E present \in BOOLEAN :
         IF present
         THEN /\ dir = [q \in Paths |-> IF q = EntryPath THEN 1 ELSE None]
              /\ inodes = [i \in 1..MaxSaves |-> IF i = 1 THEN Complete(1) ELSE <<>>]
              /\ saves = 1
         ELSE /\ dir = [q \in Paths |-> None]
              /\ inodes = [i \in 1..MaxSaves |-> <<>>]
              /\ saves = 0
    /\ clock = 1
    /\ spc = [p \in Pids |-> "idle"]
    /\ sTmp = [p \in Pids |-> NoPath]
    /\ sIno = [p \in Pids |-> None]
    /\ sVer = [p \in Pids |-> None]
    /\ sOff = [p \in Pids |-> 0]
    /\ rpc = "idle" /\ rIno = None /\ rBuf = <<>> /\ rResult = "none"

\* saveEntry up to the start of Bun.write: tmpPath is computed and opened,
\* created when absent and truncated when present.
SaveBegin(p) ==
    /\ spc[p] = "idle"
    /\ saves < MaxSaves
    /\ \E t \in clock..MaxNow :
         LET v   == saves + 1
             tmp == TmpPath(p, t)
             ino == IF dir[tmp] # None THEN dir[tmp] ELSE v
         IN  /\ clock' = t
             /\ saves' = v
             /\ sTmp' = [sTmp EXCEPT ![p] = tmp]
             /\ sVer' = [sVer EXCEPT ![p] = v]
             /\ sIno' = [sIno EXCEPT ![p] = ino]
             /\ sOff' = [sOff EXCEPT ![p] = 0]
             /\ dir' = [dir EXCEPT ![tmp] = ino]
             /\ inodes' = [inodes EXCEPT ![ino] = <<>>]
    /\ spc' = [spc EXCEPT ![p] = "write"]
    /\ UNCHANGED <<rpc, rIno, rBuf, rResult, notArchiveVars>>

\* Bun.write stores the next chunk; after the last one it closes the file.
SaveWrite(p) ==
    /\ spc[p] = "write"
    /\ inodes' = [inodes EXCEPT ![sIno[p]] = WriteAt(@, sOff[p] + 1, sVer[p])]
    /\ sOff' = [sOff EXCEPT ![p] = @ + 1]
    /\ spc' = [spc EXCEPT ![p] = IF sOff[p] + 1 = NumChunks THEN "rename" ELSE "write"]
    /\ UNCHANGED <<dir, saves, clock, sTmp, sIno, sVer, rpc, rIno, rBuf, rResult,
                   notArchiveVars>>

\* rename(tmpPath, filePath): the entry path names the new inode from one
\* instant to the next.  When tmpPath is gone rename fails, unlink fails too
\* and saveEntry throws.
SaveRename(p) ==
    /\ spc[p] = "rename"
    /\ IF dir[sTmp[p]] = None
       THEN UNCHANGED dir
       ELSE dir' = [q \in Paths |->
                      IF q = EntryPath THEN dir[sTmp[p]]
                      ELSE IF q = sTmp[p] THEN None
                      ELSE dir[q]]
    /\ spc' = [spc EXCEPT ![p] = "idle"]
    /\ sTmp' = [sTmp EXCEPT ![p] = NoPath]
    /\ sIno' = [sIno EXCEPT ![p] = None]
    /\ sVer' = [sVer EXCEPT ![p] = None]
    /\ sOff' = [sOff EXCEPT ![p] = 0]
    /\ UNCHANGED <<inodes, saves, clock, rpc, rIno, rBuf, rResult, notArchiveVars>>

\* loadEntry: Bun.file(path).text() opens the entry file; ENOENT makes
\* loadEntry return undefined.
ReadOpen ==
    /\ rpc \in {"idle", "done"}
    /\ IF dir[EntryPath] = None
       THEN /\ rpc' = "done" /\ rResult' = "undefined"
            /\ rIno' = None /\ rBuf' = <<>>
       ELSE /\ rpc' = "read" /\ rResult' = "none"
            /\ rIno' = dir[EntryPath] /\ rBuf' = <<>>
    /\ UNCHANGED <<dir, inodes, saves, clock, spc, sTmp, sIno, sVer, sOff, notArchiveVars>>

\* text() reads the next chunk of the open file; at its end JSON.parse and
\* isArchiveEntry take the content read, and JSON.parse throws on content
\* that is not a whole entry.
ReadChunk ==
    /\ rpc = "read"
    /\ IF Len(rBuf) < Len(inodes[rIno])
       THEN /\ rBuf' = Append(rBuf, inodes[rIno][Len(rBuf) + 1])
            /\ UNCHANGED <<rpc, rResult>>
       ELSE /\ rpc' = "done"
            /\ rResult' = IF \E v \in 1..MaxSaves : rBuf = Complete(v)
                          THEN "entry" ELSE "threw"
            /\ UNCHANGED rBuf
    /\ UNCHANGED <<dir, inodes, saves, clock, spc, sTmp, sIno, sVer, sOff, rIno,
                   notArchiveVars>>

NextArchive ==
    \/ \E p \in Pids : SaveBegin(p) \/ SaveWrite(p) \/ SaveRename(p)
    \/ ReadOpen
    \/ ReadChunk

SpecArchive == InitArchive /\ [][NextArchive]_vars

\* C7: a reader that loads the entry while saves of the same session are
\* in progress gets a whole entry, that of a save that has completed (the
\* previous entry or a new one), or none when the file did not exist; it
\* never gets partial or mixed content and never the content of a save
\* still in progress.
C7_ReaderGetsWholeEntry ==
    rpc = "done" =>
        \/ rResult = "undefined" /\ rBuf = <<>>
        \/ /\ rResult = "entry"
           /\ \E v \in 1..saves :
                /\ rBuf = Complete(v)
                /\ \A p \in Pids : spc[p] # "idle" => sVer[p] # v

\* The reader got a whole entry that was replaced while it was reading,
\* and another save is part-way through its writes.
C7_Witness ==
    /\ rpc = "done" /\ rResult = "entry"
    /\ dir[EntryPath] \notin {None, rIno}
    /\ \E p \in Pids : spc[p] = "write" /\ sOff[p] = 1

(***************************************************************************)
(* transformConversation: correlating tool invocations with their results. *)
(* One conversation's records carry content blocks; the first loop gathers *)
(* the results, the second pass attaches them to the invocations.          *)
(***************************************************************************)
ToolIds == 1..NumToolIds

\* The result contents that occur; None stands for a tool_result block
\* whose content is undefined.
ResultTexts == 1..2

Block(type, id, content) == [type |-> type, id |-> id, content |-> content]

BlockKinds(rec) == {rec.blocks[i].type : i \in DOMAIN rec.blocks}

\* claude-code records of one conversation: an assistant record invoking a
\* tool, a user record that only answers one (elided from the output), and
\* a user record that answers one next to text of its own.
ClaudeToolShapes ==
    {[type |-> "assistant", isError |-> FALSE,
      blocks |-> <<Block("tool_use", t, None)>>] : t \in ToolIds}
    \cup {[type |-> "user", isError |-> FALSE,
           blocks |-> <<Block("tool_result", t, c)>>]
            : t \in ToolIds, c \in {None} \cup ResultTexts}
    \cup {[type |-> "user", isError |-> FALSE,
           blocks |-> <<Block("text", None, None), Block("tool_result", t, c)>>]
            : t \in ToolIds, c \in ResultTexts}

\* pi-coding-agent message entries: an assistant message with a toolCall
\* block, a toolResult message, and a user message with text.
PiToolShapes ==
    {[type |-> "assistant", isError |-> FALSE,
      blocks |-> <<Block("toolCall", t, None)>>] : t \in ToolIds}
    \cup {[type |-> "toolResult", isError |-> e,
           blocks |-> <<Block("text", t, c)>>]
            : t \in ToolIds, c \in ResultTexts, e \in BOOLEAN}
    \cup {[type |-> "user", isError |-> FALSE,
           blocks |-> <<Block("text", None, None)>>]}

\* Map.get on a key the map does not hold.
NoResult == [has |-> FALSE, result |-> None, isError |-> FALSE]

EmptyToolResults == [t \in ToolIds |-> NoResult]

\* extractToolResults: later blocks of one content overwrite earlier ones.
RECURSIVE extractToolResults(_, _, _)
extractToolResults(blocks, i, results) ==
    IF i > Len(blocks) THEN results
    ELSE LET b == blocks[i]
         IN  IF b.type = "tool_result" /\ b.id # None /\ b.content # None
             THEN extractToolResults(blocks, i + 1,
                    [results EXCEPT ![b.id] =
                        [has |-> TRUE, result |-> b.content, isError |-> FALSE]])
             ELSE extractToolResults(blocks, i + 1, results)

\* The mutant of CarriesToolResults: results of elided records are lost.
CarriesToolResultsUnlessElided(rec) ==
    rec.type = "user" /\ ~isToolResultOnly(BlockKinds(rec))

\* The records the first loop reads results from.
CarriesToolResults(rec) == rec.type = "user"

\* The first loop over the conversation's records: allToolResults.
RECURSIVE ClaudeCollectResults(_, _, _)
ClaudeCollectResults(recs, i, results) ==
    IF i > Len(recs) THEN results
    ELSE IF CarriesToolResults(recs[i])
    THEN ClaudeCollectResults(recs, i + 1,
            extractToolResults(recs[i].blocks, 1, results))
    ELSE ClaudeCollectResults(recs, i + 1, results)

\* extractToolCalls of record i: one call per tool_use block; id names the
\* block the call was made from.
RECURSIVE extractToolCalls(_, _, _, _)
extractToolCalls(blocks, j, at, results) ==
    IF j > Len(blocks) THEN <<>>
    ELSE LET b == blocks[j]
         IN  IF b.type = "tool_use" /\ b.id # None
             THEN <<[at |-> at, id |-> b.id,
                     result |-> results[b.id].result, error |-> None]>>
                  \o extractToolCalls(blocks, j + 1, at, results)
             ELSE extractToolCalls(blocks, j + 1, at, results)

\* The second pass: the calls of the tool_calls messages, in push order.
RECURSIVE ClaudeToolCalls(_, _, _)
ClaudeToolCalls(recs, i, results) ==
    IF i > Len(recs) THEN <<>>
    ELSE IF recs[i].type = "assistant"
    THEN extractToolCalls(recs[i].blocks, 1, i, results)
         \o ClaudeToolCalls(recs, i + 1, results)
    ELSE ClaudeToolCalls(recs, i + 1, results)

\* pi-coding-agent's first pass over the entries.
RECURSIVE PiCollectResults(_, _, _)
PiCollectResults(recs, i, results) ==
    IF i > Len(recs) THEN results
    ELSE IF recs[i].type = "toolResult"
    THEN PiCollectResults(recs, i + 1,
            [results EXCEPT ![recs[i].blocks[1].id] =
                [has |-> TRUE, result |-> recs[i].blocks[1].content,
                 isError |-> recs[i].isError]])
    ELSE PiCollectResults(recs, i + 1, results)

\* piToolCalls.map of one assistant message.
RECURSIVE PiCallsOf(_, _, _, _)
PiCallsOf(blocks, j, at, results) ==
    IF j > Len(blocks) THEN <<>>
    ELSE LET b == blocks[j]
         IN  IF b.type = "toolCall"
             THEN <<[at |-> at, id |-> b.id,
                     result |-> results[b.id].result,
                     error |-> IF results[b.id].isError
                               THEN results[b.id].result ELSE None]>>
                  \o PiCallsOf(blocks, j + 1, at, results)
             ELSE PiCallsOf(blocks, j + 1, at, results)

RECURSIVE PiToolCalls(_, _, _)
PiToolCalls(recs, i, results) ==
    IF i > Len(recs) THEN <<>>
    ELSE IF recs[i].type = "assistant"
    THEN PiCallsOf(recs[i].blocks, 1, i, results)
         \o PiToolCalls(recs, i + 1, results)
    ELSE PiToolCalls(recs, i + 1, results)

InitTools ==
    /\ ParseOff /\ WalkOff /\ WatchOff /\ ArchiveOff /\ RerunOff /\ SessionsOff /\ TitlesOff /\ ConvertOff /\ CacheOff
    /\ tAdapter \in {"claude-code", "pi-coding-agent"}
    /\ \E n \in 1..MaxRecords :
         tRecs \in [1..n -> IF tAdapter = "claude-code"
                            THEN ClaudeToolShapes ELSE PiToolShapes]
    /\ tpc = "start"
    /\ toolResults = EmptyToolResults
    /\ calls = <<>>

ClaudeCollect ==
    /\ tAdapter = "claude-code" /\ tpc = "start"
    /\ toolResults' = ClaudeCollectResults(tRecs, 1, EmptyToolResults)
    /\ tpc' = "collected"
    /\ UNCHANGED <<tAdapter, tRecs, calls>>
    /\ UNCHANGED notToolVars

ClaudeExtract ==
    /\ tAdapter = "claude-code" /\ tpc = "collected"
    /\ calls' = ClaudeToolCalls(tRecs, 1, toolResults)
    /\ tpc' = "done"
    /\ UNCHANGED <<tAdapter, tRecs, toolResults>>
    /\ UNCHANGED notToolVars

PiCollect ==
    /\ tAdapter = "pi-coding-agent" /\ tpc = "start"
    /\ toolResults' = PiCollectResults(tRecs, 1, EmptyToolResults)
    /\ tpc' = "collected"
    /\ UNCHANGED <<tAdapter, tRecs, calls>>
    /\ UNCHANGED notToolVars

PiExtract ==
    /\ tAdapter = "pi-coding-agent" /\ tpc = "collected"
    /\ calls' = PiToolCalls(tRecs, 1, toolResults)
    /\ tpc' = "done"
    /\ UNCHANGED <<tAdapter, tRecs, toolResults>>
    /\ UNCHANGED notToolVars

NextTools == ClaudeCollect \/ ClaudeExtract \/ PiCollect \/ PiExtract

SpecTools == InitTools /\ [][NextTools]_vars

\* The result blocks of the conversation that answer invocation t, as
\* <<record, block>> positions.
ResultBlocksFor(t) ==
    {<<i, j>> \in (DOMAIN tRecs) \X (1..2) :
        /\ j \in DOMAIN tRecs[i].blocks
        /\ tRecs[i].type \in {"user", "toolResult"}
        /\ tRecs[i].blocks[j].id = t
        /\ tRecs[i].blocks[j].content # None
        /\ tAdapter = "claude-code" => tRecs[i].blocks[j].type = "tool_result"}

Invocations ==
    {<<i, j>> \in (DOMAIN tRecs) \X (1..2) :
        /\ j \in DOMAIN tRecs[i].blocks
        /\ tRecs[i].blocks[j].type \in {"tool_use", "toolCall"}}

\* C15: every invocation of the conversation is emitted as a call, and a
\* call whose invocation id is answered by some result block of the
\* conversation carries the content of such a block, wherever the answering
\* record stands and whether or not it is elided from the output; a call
\* nobody answers carries no result.
C15_CallsCarryMatchingResult ==
    tpc = "done" =>
        /\ Len(calls) = Cardinality(Invocations)
        /\ \A k \in DOMAIN calls :
             LET t == calls[k].id
             IN  /\ \E p \in Invocations :
                      p[1] = calls[k].at /\ tRecs[p[1]].blocks[p[2]].id = t
                 /\ IF ResultBlocksFor(t) = {}
                    THEN calls[k].result = None /\ calls[k].error = None
                    ELSE \E p \in ResultBlocksFor(t) :
                           /\ calls[k].result = tRecs[p[1]].blocks[p[2]].content
                           /\ calls[k].error =
                                IF tRecs[p[1]].isError
                                THEN tRecs[p[1]].blocks[p[2]].content ELSE None

\* An invocation answered only by an elided record that stands before it.
C15_Witness ==
    /\ tpc = "done" /\ tAdapter = "claude-code"
    /\ \E k \in DOMAIN calls :
         /\ calls[k].result # None
         /\ \A p \in ResultBlocksFor(calls[k].id) :
              /\ p[1] < calls[k].at
              /\ isToolResultOnly(BlockKinds(tRecs[p[1]]))

(***************************************************************************)
(* The pipeline run twice on one input: claudeCodeAdapter.parse of one     *)
(* conversation, then walkTranscriptTree with the same head.  timestamp    *)
(* is optional in a ClaudeRecord; the second pass of transformConversation *)
(* stamps a record that has none with new Date().toISOString().  The clock *)
(* never runs backwards, and the source was written before it is parsed.   *)
(***************************************************************************)
ClockValues == (MaxTs + 1)..(MaxTs + MaxNow)

\* rec.timestamp || new Date().toISOString() for the messages of the second
\* pass; reads[u] is what the clock returned while record u was handled.
Stamped(msgs, reads) ==
    [j \in DOMAIN msgs |->
        IF msgs[j].timestamp # None THEN msgs[j]
        ELSE [msgs[j] EXCEPT !.timestamp = reads[msgs[j].sourceRef]]]

\* The clock readings of one second pass over the records in conv order.
ClockReads(conv, from) ==
    {reads \in [Range(conv) -> from..(MaxTs + MaxNow)] :
        \A k, l \in DOMAIN conv : k < l => reads[conv[k]] <= reads[conv[l]]}

\* The records drawn: one that is rendered and one that is elided.
RerunShapes ==
    { [type |-> "assistant", content |-> {"text"}],
      [type |-> "user",      content |-> {"tool_result"}] }

\* A source file of at most one conversation in an append-only log: the
\* first record is the root and every other record names an earlier one as
\* its parent.  The timestamps that are present are equal, the case in
\* which findLatestLeaf's rule for ties decides.
InitRerun ==
    /\ ParseOff /\ WatchOff /\ ArchiveOff /\ ToolsOff /\ SessionsOff /\ TitlesOff /\ ConvertOff /\ CacheOff
    /\ \E n \in 0..MaxRecords :
         /\ \E parents \in [1..n -> {None} \cup Ids] :
              \E times \in [1..n -> {None, MaxTs}] :
                \E shapes \in [1..n -> RerunShapes] :
                  /\ \A i \in 1..n : IF i = 1 THEN parents[i] = None
                                     ELSE parents[i] \in 1..(i - 1)
                  /\ convRecs = [i \in 1..n |->
                                   [uuid |-> i, parentUuid |-> parents[i],
                                    type |-> shapes[i].type,
                                    content |-> shapes[i].content,
                                    timestamp |-> times[i]]]
         /\ head \in 0..n
    /\ clockNow = MaxTs + 1
    /\ runNo = 1
    /\ firstEvents = <<>>
    /\ messages = <<>> /\ wpc = "off"
    /\ target = None /\ traceCurrent = None /\ path = <<>> /\ events = <<>>

\* claudeCodeAdapter.parse of the source; its one Transcript is handed to
\* walkTranscriptTree.
ParseRun ==
    /\ runNo \in {1, 2} /\ wpc = "off"
    /\ LET r == ClaudeSplitConversations(convRecs)
       IN  IF r.conversations = <<>>
           THEN /\ messages' = <<>>          \* the single empty transcript
                /\ UNCHANGED clockNow
           ELSE LET conv == r.conversations[1]
                IN  \E reads \in ClockReads(conv, clockNow) :
                      /\ messages' = Stamped(ClaudeTransformConversation(
                                        convRecs, conv, r.resolvedParents), reads)
                      /\ clockNow' = reads[conv[Len(conv)]]
    /\ wpc' = "start"
    /\ UNCHANGED <<head, target, traceCurrent, path, events>>
    /\ UNCHANGED <<convRecs, runNo, firstEvents>>
    /\ UNCHANGED notRerunVars

\* The first run is over; the same source and head are run again.
RunAgain ==
    /\ runNo = 1 /\ wpc = "done"
    /\ firstEvents' = events
    /\ runNo' = 2
    /\ messages' = <<>> /\ wpc' = "off"
    /\ target' = None /\ traceCurrent' = None /\ path' = <<>> /\ events' = <<>>
    /\ UNCHANGED <<head, convRecs, clockNow>>
    /\ UNCHANGED notRerunVars

NextRerun ==
    ParseRun \/ WalkStart \/ TraceStep \/ TraceReturn \/ WalkEmit \/ RunAgain

SpecRerun == InitRerun /\ [][NextRerun]_vars

\* C17: the second run of parse and render on the same source with the same
\* head yields the events of the first run, event for event: the same
\* messages events in the same order and the same branch notes.
C17_SecondRunYieldsSameEvents ==
    (runNo = 2 /\ wpc = "done") => events = firstEvents

\* The source has no node that is rendered: no record at all, or only
\* records that transformConversation elides.
ZeroRenderNodes == \A i \in DOMAIN convRecs : ClaudeWillSkip(convRecs[i])

SessionDirs == {"a", "b"}

SessionNames == {"x", "y"}

SessionPaths == [dir : SessionDirs, name : SessionNames]

SourceContents == 1..2

Summaries == {None, 1}

\* extractSessionId: the file name without its directory and extension.
extractSessionId(sessionPath) == sessionPath.name

\* Bun.hash of the content; distinct contents of the model hash differently.
computeContentHash(text) == text

AdapterVersion == "claude-code:1"

ARCHIVE_SCHEMA_VERSION == 1

EmptyStore == [n \in SessionNames |-> <<>>]

EmptyResult == [updated |-> <<>>, current |-> <<>>]

\* loadEntry: <<>> for undefined, else the one entry of the file.
loadEntryOf(store, sessionId) == store[sessionId]

isFreshIgnoringSchema(e, sourceHash, adapterVersion) ==
    /\ e.sourceHash = sourceHash
    /\ e.adapterVersion = adapterVersion

isFresh(e, sourceHash, adapterVersion) ==
    /\ e.sourceHash = sourceHash
    /\ e.adapterVersion = adapterVersion
    /\ e.schemaVersion = ARCHIVE_SCHEMA_VERSION

archiveSessionSummaryOnly(store, s, nSaves) ==
    LET sessionId  == extractSessionId(s.path)
        sourceHash == computeContentHash(s.content)
        found      == loadEntryOf(store, sessionId)
    IN  IF found # <<>> /\ isFresh(found[1], sourceHash, AdapterVersion)
        THEN IF s.summary # None /\ found[1].title # s.summary
             THEN [store   |-> [store EXCEPT ![sessionId] =
                                   <<[found[1] EXCEPT !.title = s.summary]>>],
                   saves   |-> nSaves + 1,
                   updated |-> TRUE]
             ELSE [store |-> store, saves |-> nSaves, updated |-> FALSE]
        ELSE [store |-> [store EXCEPT ![sessionId] =
                          <<[sessionId      |-> sessionId,
                             sourcePath     |-> s.path,
                             sourceHash     |-> sourceHash,
                             adapterVersion |-> AdapterVersion,
                             schemaVersion  |-> ARCHIVE_SCHEMA_VERSION,
                             archivedAt     |-> nSaves + 1,
                             title          |-> s.summary,
                             transcripts    |-> s.content]>>],
              saves   |-> nSaves + 1,
              updated |-> TRUE]

\* archiveSession: the store and the number of saves after the call, and
\* the flag it returns.
archiveSession(store, s, nSaves) ==
    LET sessionId  == extractSessionId(s.path)
        sourceHash == computeContentHash(s.content)
        found      == loadEntryOf(store, sessionId)
    IN  IF found # <<>> /\ isFresh(found[1], sourceHash, AdapterVersion)
        THEN IF s.summary # None /\ found[1].title # s.summary
             THEN [store   |-> [store EXCEPT ![sessionId] =
                                   <<[found[1] EXCEPT !.title = s.summary]>>],
                   saves   |-> nSaves + 1,
                   updated |-> TRUE]
             ELSE [store |-> store, saves |-> nSaves, updated |-> FALSE]
        ELSE [store |-> [store EXCEPT ![sessionId] =
                          <<[sessionId      |-> sessionId,
                             sourcePath     |-> s.path,
                             sourceHash     |-> sourceHash,
                             adapterVersion |-> AdapterVersion,
                             schemaVersion  |-> ARCHIVE_SCHEMA_VERSION,
                             archivedAt     |-> nSaves + 1,
                             title          |-> IF s.summary # None THEN s.summary
                                                ELSE IF found # <<>> THEN found[1].title
                                                ELSE None,
                             transcripts    |-> s.content]>>],
              saves   |-> nSaves + 1,
              updated |-> TRUE]

\* discover: every session file of the directory once, in glob order.
InitSessions ==
    /\ ParseOff /\ WalkOff /\ WatchOff /\ ArchiveOff /\ ToolsOff /\ RerunOff /\ TitlesOff /\ ConvertOff /\ CacheOff
    /\ \E n \in 1..MaxSessions :
         \E paths \in [1..n -> SessionPaths] :
           \E texts \in [1..n -> SourceContents] :
             \E sums \in [1..n -> Summaries] :
               /\ NoDuplicates(paths)
               /\ discovered = [i \in 1..n |->
                                  [path |-> paths[i], content |-> texts[i],
                                   summary |-> sums[i]]]
    /\ archiveStore = EmptyStore
    /\ allPc = "idle"
    /\ passNo = 0
    /\ sessIdx = 0
    /\ allResult = EmptyResult
    /\ saveCount = 0

\* archiveAll is called: the adapter's sessions are discovered.
ArchiveAllCall ==
    /\ allPc = "idle" /\ passNo < MaxPasses
    /\ allPc' = "loop"
    /\ sessIdx' = 1
    /\ allResult' = EmptyResult
    /\ UNCHANGED <<discovered, archiveStore, passNo, saveCount>>
    /\ UNCHANGED notSessionVars

\* One iteration of archiveAll's loop over the sessions.
ArchiveAllSession ==
    /\ allPc = "loop" /\ sessIdx <= Len(discovered)
    /\ LET s == discovered[sessIdx]
           r == archiveSession(archiveStore, s, saveCount)
       IN  /\ archiveStore' = r.store
           /\ saveCount' = r.saves
           /\ allResult' =
                IF r.updated
                THEN [allResult EXCEPT !.updated = Append(@, extractSessionId(s.path))]
                ELSE [allResult EXCEPT !.current = Append(@, extractSessionId(s.path))]
    /\ sessIdx' = sessIdx + 1
    /\ UNCHANGED <<discovered, allPc, passNo>>
    /\ UNCHANGED notSessionVars

\* archiveAll returns its result.
ArchiveAllReturn ==
    /\ allPc = "loop" /\ sessIdx > Len(discovered)
    /\ allPc' = "idle"
    /\ passNo' = passNo + 1
    /\ UNCHANGED <<discovered, archiveStore, sessIdx, allResult, saveCount>>
    /\ UNCHANGED notSessionVars

NextSessions == ArchiveAllCall \/ ArchiveAllSession \/ ArchiveAllReturn

SpecSessions == InitSessions /\ [][NextSessions]_vars

\* The session archiveSession is about to be called on has a stored entry
\* that was written from it.
StoredFromCurrent ==
    /\ allPc = "loop" /\ sessIdx <= Len(discovered)
    /\ LET s == discovered[sessIdx]
           found == archiveStore[extractSessionId(s.path)]
       IN  found # <<>> /\ found[1].sourcePath = s.path

\* The sources never change: archiveSession on a session that has a stored
\* entry written from it reports updated: false and leaves the store as it
\* was.
UnchangedSessionIsCurrent ==
    (StoredFromCurrent /\ sessIdx' = sessIdx + 1) =>
        /\ archiveStore' = archiveStore
        /\ allResult'.updated = allResult.updated
        /\ Len(allResult'.current) = Len(allResult.current) + 1

\* A second or later archiveAll has returned.
LaterPassReturned == allPc = "idle" /\ passNo >= 2

\* C20: archiving a session whose source content, adapter version, schema
\* version and harness summary are unchanged since its stored entry was
\* written reports updated: false and leaves the stored entry unchanged;
\* hence a second archiveAll over unchanged sources reports every session
\* as current and none as updated.
C20_SecondArchiveAllAllCurrent ==
    /\ [][UnchangedSessionIsCurrent]_vars
    /\ [](LaterPassReturned =>
            /\ allResult.updated = <<>>
            /\ Len(allResult.current) = Len(discovered))


(***************************************************************************)
(* archiveAll over an archive that an earlier run left behind: the stored  *)
(* entry of a session may carry another source hash, the version of an     *)
(* earlier adapter or an earlier schema version, and a title (from a       *)
(* harness summary of that time or generated later).                       *)
(***************************************************************************)

EarlierAdapterVersion == "claude-code:0"

EarlierSchemaVersion == 0

GeneratedTitle == 2

\* An entry as loadEntry accepts it, written by an earlier run.
EarlierEntries ==
    {[sessionId      |-> "x",
      sourcePath     |-> [dir |-> "a", name |-> "x"],
      sourceHash     |-> computeContentHash(c),
      adapterVersion |-> av,
      schemaVersion  |-> sv,
      archivedAt     |-> 0,
      title          |-> t,
      transcripts    |-> c] :
        c \in SourceContents,
        av \in {AdapterVersion, EarlierAdapterVersion},
        sv \in {ARCHIVE_SCHEMA_VERSION, EarlierSchemaVersion},
        t \in {None, GeneratedTitle}}

InitStale ==
    /\ ParseOff /\ WalkOff /\ WatchOff /\ ArchiveOff /\ ToolsOff /\ RerunOff /\ TitlesOff /\ ConvertOff /\ CacheOff
    /\ \E n \in 1..MaxSessions :
         \E paths \in [1..n -> SessionPaths] :
           \E texts \in [1..n -> SourceContents] :
             \E sums \in [1..n -> Summaries] :
               /\ NoDuplicates(paths)
               /\ discovered = [i \in 1..n |->
                                  [path |-> paths[i], content |-> texts[i],
                                   summary |-> sums[i]]]
    /\ \E e \in EarlierEntries : archiveStore = [EmptyStore EXCEPT !["x"] = <<e>>]
    /\ allPc = "idle"
    /\ passNo = 0
    /\ sessIdx = 0
    /\ allResult = EmptyResult
    /\ saveCount = 0

SpecStale == InitStale /\ [][NextSessions]_vars

\* archiveSession is about to be called on a session that has a stored entry.
HasStoredEntry ==
    /\ allPc = "loop" /\ sessIdx <= Len(discovered)
    /\ archiveStore[extractSessionId(discovered[sessIdx].path)] # <<>>

\* The three fields of the stored entry equal the current ones.
AllThreeCurrent ==
    LET s == discovered[sessIdx]
        e == archiveStore[extractSessionId(s.path)][1]
    IN  /\ e.sourceHash = computeContentHash(s.content)
        /\ e.adapterVersion = AdapterVersion
        /\ e.schemaVersion = ARCHIVE_SCHEMA_VERSION

\* The call kept the parse of the stored entry: nothing but the title changed.
KeptStoredParse ==
    LET id == extractSessionId(discovered[sessIdx].path)
    IN  /\ archiveStore'[id] # <<>>
        /\ [archiveStore'[id][1] EXCEPT !.title = None] =
           [archiveStore[id][1] EXCEPT !.title = None]

\* The call parsed the session again and replaced the stored entry.
ReplacedStoredEntry ==
    LET s  == discovered[sessIdx]
        id == extractSessionId(s.path)
        e  == archiveStore'[id][1]
    IN  /\ archiveStore'[id] # <<>>
        /\ e.sourcePath = s.path
        /\ e.sourceHash = computeContentHash(s.content)
        /\ e.adapterVersion = AdapterVersion
        /\ e.schemaVersion = ARCHIVE_SCHEMA_VERSION
        /\ e.archivedAt > archiveStore[id][1].archivedAt
        /\ e.transcripts = s.content
        /\ saveCount' = saveCount + 1
        /\ Len(allResult'.updated) = Len(allResult.updated) + 1

FreshExactlyWhenAllThreeMatch ==
    (HasStoredEntry /\ sessIdx' = sessIdx + 1) =>
        IF AllThreeCurrent THEN KeptStoredParse ELSE ReplacedStoredEntry

\* C21: a stored entry is treated as fresh exactly when its sourceHash,
\* adapterVersion and schemaVersion all equal the current ones; when any of
\* the three differs, the session is parsed again and the stored entry is
\* replaced.
C21_FreshExactlyWhenAllThreeMatch == [][FreshExactlyWhenAllThreeMatch]_vars

\* An entry of an earlier run (only such entries carry the generated title)
\* has been replaced by the first pass.
C21_Witness ==
    /\ passNo = 0 /\ allPc = "loop" /\ sessIdx > 1
    /\ archiveStore["x"] # <<>>
    /\ archiveStore["x"][1].archivedAt > 0
    /\ archiveStore["x"][1].title = GeneratedTitle

\* The title of the stored entry after the call: the harness summary when
\* the session has one, otherwise the title stored before the call.
TitleFromSummaryElseStored ==
    (allPc = "loop" /\ sessIdx <= Len(discovered) /\ sessIdx' = sessIdx + 1) =>
        LET s   == discovered[sessIdx]
            id  == extractSessionId(s.path)
            old == archiveStore[id]
        IN  /\ archiveStore'[id] # <<>>
            /\ archiveStore'[id][1].title =
                 IF s.summary # None THEN s.summary
                 ELSE IF old # <<>> THEN old[1].title
                 ELSE None

\* C22: after archiveSession, the entry's title is the harness-provided
\* summary when the session has one, and otherwise the title of the
\* previously stored entry; a title already stored is never dropped by
\* re-archiving a session that has no summary.
C22_TitleFromSummaryElseStored == [][TitleFromSummaryElseStored]_vars

\* A pass has returned after which a re-archived entry (written by this
\* run, for a session without summary) still carries the title stored
\* before.
C22_Witness ==
    /\ allPc = "idle" /\ passNo >= 1
    /\ \A i \in 1..Len(discovered) : discovered[i].summary = None
    /\ archiveStore["x"] # <<>>
    /\ archiveStore["x"][1].archivedAt > 0
    /\ archiveStore["x"][1].title = GeneratedTitle

(***************************************************************************)
(* generateTitles and archiveSession on the entry of one session.          *)
(*                                                                         *)
(* The archiver (a watcher, or an archive command) and the title command   *)
(* are separate calls, each with awaits between its load of the entry and  *)
(* its saveEntry; saveEntry replaces the whole entry file.                 *)
(***************************************************************************)
TitledSession == [dir |-> "a", name |-> "x"]

\* The entry as a first archive pass stored it: no summary, no title yet.
InitTitles ==
    /\ ParseOff /\ WalkOff /\ WatchOff /\ ArchiveOff /\ ToolsOff /\ RerunOff /\ SessionsOff /\ ConvertOff /\ CacheOff
    /\ sourceText = 1
    /\ entryFile = archiveSession(EmptyStore,
                       [path |-> TitledSession, content |-> 1, summary |-> None], 0).store
    /\ gpc = "idle"
    /\ gEntry = <<>>
    /\ apc = "idle"
    /\ aText = 1
    /\ aStore = EmptyStore
    /\ aPasses = 0
    /\ aSaves = 1

\* The harness appends to the session file.
SourceEdit ==
    /\ sourceText <= MaxEdits
    /\ sourceText' = sourceText + 1
    /\ UNCHANGED <<entryFile, gpc, gEntry, apc, aText, aStore, aPasses, aSaves>>
    /\ UNCHANGED notTitleVars

\* archiveSession up to its saveEntry: the content is read and hashed and
\* the stored entry is loaded.
ArchiveLoad ==
    /\ apc = "idle" /\ aPasses < MaxPasses
    /\ aText' = sourceText
    /\ aStore' = entryFile
    /\ apc' = "loaded"
    /\ UNCHANGED <<entryFile, sourceText, gpc, gEntry, aPasses, aSaves>>
    /\ UNCHANGED notTitleVars

\* archiveSession decides on what it loaded and saves the entry it built.
ArchiveSave ==
    /\ apc = "loaded"
    /\ LET id == extractSessionId(TitledSession)
           r  == archiveSession(aStore,
                     [path |-> TitledSession, content |-> aText, summary |-> None],
                     aSaves)
       IN  /\ entryFile' = IF r.updated THEN [entryFile EXCEPT ![id] = r.store[id]]
                           ELSE entryFile
           /\ aSaves' = r.saves
    /\ apc' = "idle"
    /\ aPasses' = aPasses + 1
    /\ UNCHANGED <<sourceText, gpc, gEntry, aText, aStore>>
    /\ UNCHANGED notTitleVars

\* generateTitles: listEntries; an entry that has a title is skipped,
\* otherwise generateTitle is awaited.
TitlesList ==
    /\ gpc = "idle"
    /\ LET e == entryFile[extractSessionId(TitledSession)]
       IN  /\ gEntry' = e
           /\ gpc' = IF e = <<>> \/ e[1].title # None THEN "done" ELSE "generate"
    /\ UNCHANGED <<entryFile, sourceText, apc, aText, aStore, aPasses, aSaves>>
    /\ UNCHANGED notTitleVars

\* generateTitles: entry.title = title; await saveEntry(archiveDir, entry).
TitlesSave ==
    /\ gpc = "generate"
    /\ LET e == [gEntry[1] EXCEPT !.title = GeneratedTitle]
       IN  /\ entryFile' = [entryFile EXCEPT ![e.sessionId] = <<e>>]
           /\ gEntry' = <<e>>
    /\ gpc' = "done"
    /\ UNCHANGED <<sourceText, apc, aText, aStore, aPasses, aSaves>>
    /\ UNCHANGED notTitleVars

NextTitles == SourceEdit \/ ArchiveLoad \/ ArchiveSave \/ TitlesList \/ TitlesSave

SpecTitles == InitTitles /\ [][NextTitles]_vars

\* generateTitles has saved a title and no archiveSession call is under way.
BothComplete ==
    /\ gpc = "done" /\ gEntry # <<>> /\ gEntry[1].title = GeneratedTitle
    /\ apc = "idle" /\ aPasses > 0

\* C27: when title generation and archiving operate on the same archive
\* entry concurrently, neither write undoes the other: after both complete,
\* the stored entry holds the transcripts of the latest archive pass
\* together with the generated title.
C27_NeitherWriteUndone ==
    BothComplete =>
        LET e == entryFile[extractSessionId(TitledSession)][1]
        IN  /\ e.title = GeneratedTitle
            /\ e.transcripts = aText

(***************************************************************************)
(* convertToDirectory: the output directory and its transcripts.json.      *)
(***************************************************************************)
OutputNames == {"m1", "m2", "m3"}

\* The source being converted, and another source with outputs in the
\* same directory.
ThisSource == "this"

OtherSource == "other"

NoEntry == <<>>

\* A TranscriptEntry: its source and whether this call wrote it.
IndexEntry(source, fresh) == <<[source |-> source, fresh |-> fresh]>>

\* The filenames the index records for a source.
getOutputsForSource(index, sourcePath) ==
    {f \in OutputNames : index[f] # NoEntry /\ index[f][1].source = sourcePath}

\* removeEntriesForSource: the entries removed, and the index without them.
removeEntriesForSource(index, sourcePath) ==
    [removed |-> {[filename |-> f, entry |-> index[f]] :
                     f \in getOutputsForSource(index, sourcePath)},
     index   |-> [f \in OutputNames |->
                    IF f \in getOutputsForSource(index, sourcePath)
                    THEN NoEntry ELSE index[f]]]

restoreEntries(index, entries) ==
    [f \in OutputNames |->
        IF \E r \in entries : r.filename = f
        THEN (CHOOSE r \in entries : r.filename = f).entry
        ELSE index[f]]

setEntry(index, outputPath, entry) == [index EXCEPT ![outputPath] = entry]

\* deleteOutputFiles: unlink each file; a failing unlink is only warned of.
deleteOutputFiles(files, filenames) == files \ filenames

\* An output directory whose index records files that exist; the parsed
\* transcripts get names that no other source's output has.
InitConvert ==
    /\ ParseOff /\ WalkOff /\ WatchOff /\ ArchiveOff /\ ToolsOff /\ RerunOff /\ SessionsOff /\ TitlesOff /\ CacheOff
    /\ indexFile \in [OutputNames -> {NoEntry, IndexEntry(ThisSource, FALSE),
                                      IndexEntry(OtherSource, FALSE)}]
    /\ outFiles = {f \in OutputNames : indexFile[f] # NoEntry}
    /\ \E n \in 1..MaxOutputs :
         \E names \in [1..n -> OutputNames] :
           /\ NoDuplicates(names)
           /\ \A i \in 1..n : names[i] \notin getOutputsForSource(indexFile, OtherSource)
           /\ newNames = names
    /\ cIndex = [f \in OutputNames |-> NoEntry]
    /\ removedEntries = {}
    /\ newOutputs = <<>>
    /\ cpc = "start"

\* loadIndex and removeEntriesForSource.
ConvertStart ==
    /\ cpc = "start"
    /\ LET r == removeEntriesForSource(indexFile, ThisSource)
       IN  /\ cIndex' = r.index
           /\ removedEntries' = r.removed
    /\ cpc' = "loop"
    /\ UNCHANGED <<outFiles, indexFile, newOutputs, newNames>>
    /\ UNCHANGED notConvertVars

\* One iteration of the loop: the transcript is rendered and written and
\* its entry is set.
ConvertWrite ==
    /\ cpc = "loop" /\ Len(newOutputs) < Len(newNames)
    /\ LET relativePath == newNames[Len(newOutputs) + 1]
       IN  /\ outFiles' = outFiles \cup {relativePath}
           /\ newOutputs' = Append(newOutputs, relativePath)
           /\ cIndex' = setEntry(cIndex, relativePath, IndexEntry(ThisSource, TRUE))
    /\ UNCHANGED <<indexFile, removedEntries, newNames, cpc>>
    /\ UNCHANGED notConvertVars

\* An iteration throws (renderTranscript, or Bun.write on a full disk): the
\* catch block deletes newOutputs, restores the entries and rethrows.
ConvertThrow ==
    /\ cpc = "loop" /\ Len(newOutputs) < Len(newNames)
    /\ outFiles' = deleteOutputFiles(outFiles, Range(newOutputs))
    /\ cIndex' = restoreEntries(cIndex, removedEntries)
    /\ cpc' = "failed"
    /\ UNCHANGED <<indexFile, removedEntries, newOutputs, newNames>>
    /\ UNCHANGED notConvertVars

\* After the loop: the old files that were not written again are deleted.
ConvertDeleteOld ==
    /\ cpc = "loop" /\ Len(newOutputs) = Len(newNames)
    /\ LET oldFilenames == {r.filename : r \in removedEntries}
           toDelete     == oldFilenames \ Range(newOutputs)
       IN  outFiles' = deleteOutputFiles(outFiles, toDelete)
    /\ cpc' = "save"
    /\ UNCHANGED <<indexFile, cIndex, removedEntries, newOutputs, newNames>>
    /\ UNCHANGED notConvertVars

\* saveIndex writes transcripts.json.
ConvertSaveIndex ==
    /\ cpc = "save"
    /\ indexFile' = cIndex
    /\ cpc' = "done"
    /\ UNCHANGED <<outFiles, cIndex, removedEntries, newOutputs, newNames>>
    /\ UNCHANGED notConvertVars

\* saveIndex throws (Bun.write or rename fails); it is outside the try.
ConvertSaveIndexThrow ==
    /\ cpc = "save"
    /\ cpc' = "failed"
    /\ UNCHANGED <<outFiles, indexFile, cIndex, removedEntries, newOutputs, newNames>>
    /\ UNCHANGED notConvertVars

NextConvert ==
    \/ ConvertStart \/ ConvertWrite \/ ConvertThrow \/ ConvertDeleteOld
    \/ ConvertSaveIndex \/ ConvertSaveIndexThrow

SpecConvert == InitConvert /\ [][NextConvert]_vars

\* convertToDirectory has thrown after writing at least one new file.
FailedAfterWriting == cpc = "failed" /\ newOutputs # <<>>

\* C28: if convertToDirectory fails after it has written some new output
\* files, the output directory stays consistent with its index: every
\* output file that the index recorded for that source before the call
\* still exists afterwards, and the index entries for that source are the
\* ones from before the call.
C28_FailureKeepsDirectoryConsistent ==
    FailedAfterWriting =>
        /\ \A r \in removedEntries : r.filename \in outFiles
        /\ \A f \in OutputNames :
             (indexFile[f] # NoEntry /\ indexFile[f][1].source = ThisSource)
                <=> (\E r \in removedEntries : r.filename = f /\ r.entry = indexFile[f])

(***************************************************************************)
(* HtmlCache: a Map in insertion order, used as an LRU cache.              *)
(***************************************************************************)
CacheKeys == 1..NumCacheKeys

CacheHtmls == 1..2

\* Map.delete(key)
MapDelete(map, key) == SelectSeq(map, LAMBDA e : e.key # key)

\* Map.get(key), None for undefined
MapGet(map, key) ==
    IF \E i \in DOMAIN map : map[i].key = key
    THEN map[CHOOSE i \in DOMAIN map : map[i].key = key].html
    ELSE None

\* get: a hit moves the entry to the end.
HtmlCacheGet(map, key) ==
    IF MapGet(map, key) # None
    THEN Append(MapDelete(map, key), [key |-> key, html |-> MapGet(map, key)])
    ELSE map

\* set without the eviction of the oldest entry.
HtmlCacheSetNoEvict(map, key, html) ==
    Append(MapDelete(map, key), [key |-> key, html |-> html])

\* set: delete, insert at the end, evict the oldest when over maxSize.
HtmlCacheSet(map, key, html) ==
    LET added == Append(MapDelete(map, key), [key |-> key, html |-> html])
    IN  IF Len(added) > CacheMaxSize THEN Tail(added) ELSE added

\* new HtmlCache(maxSize)
InitCache ==
    /\ ParseOff /\ WalkOff /\ WatchOff /\ ArchiveOff /\ ToolsOff /\ RerunOff /\ SessionsOff /\ TitlesOff /\ ConvertOff
    /\ cacheMap = <<>>
    /\ cacheGot = None
    /\ cacheEvicted = FALSE

CacheGet ==
    \E key \in CacheKeys :
        /\ cacheGot' = MapGet(cacheMap, key)
        /\ cacheMap' = HtmlCacheGet(cacheMap, key)
        /\ UNCHANGED cacheEvicted
        /\ UNCHANGED notCacheVars

CacheSet ==
    \E key \in CacheKeys : \E html \in CacheHtmls :
        /\ cacheMap' = HtmlCacheSet(cacheMap, key, html)
        /\ cacheEvicted' =
             (cacheEvicted \/ Len(MapDelete(cacheMap, key)) + 1 > CacheMaxSize)
        /\ UNCHANGED cacheGot
        /\ UNCHANGED notCacheVars

NextCache == CacheGet \/ CacheSet

SpecCache == InitCache /\ [][NextCache]_vars

\* C29: after any sequence of get and set calls, the HTML cache holds at
\* most maxSize entries.
C29_AtMostMaxSizeEntries == Len(cacheMap) <= CacheMaxSize

\* A set on a full cache has evicted the oldest entry, and a get has hit.
C29_Witness ==
    /\ cacheEvicted
    /\ Len(cacheMap) = CacheMaxSize
    /\ cacheGot # None
====
